---------------------------- MODULE Spec2Model ----------------------------
(***************************************************************************)
(* Auto_Church: the hash-chained deed ledger (crates/church-ledger), the   *)
(* record validator and the hash linking of church_of_fear_ledger and of   *)
(* the microspace rights observer, the advisory scores of a record, and    *)
(* the admission kernel of crates/eco-fairness-guard.                      *)
(*                                                                         *)
(* A hash-typed string (prev_hash, self_hash, expected_prev_hash) is       *)
(* either a literal, Str(s), or a digest.  SHA-256 is modelled as an       *)
(* injective function of its input (collision resistance) that never       *)
(* yields a literal: the hex digest of text t is <<"sha256", t>>.  The     *)
(* JSON text serde_json::to_string gives for an object is modelled as the  *)
(* tuple of its keys and values in serialization order, which determines   *)
(* the text and is determined by it.                                       *)
(***************************************************************************)
EXTENDS Naturals, Integers, Sequences, FiniteSets, TLC

VARIABLES
    exists,      \* church-ledger: whether the ledger path exists
    file,        \* church-ledger: the file's content, a sequence of written units
    pc,          \* per caller of append_deed_event: "idle", "json" or "nl"
    ev,          \* per caller: the DeedEvent built by the call in flight (<<>> if none)
    ret,         \* per caller: what the caller's last append_deed_event returned
    pre,         \* per caller: the file as it was when the call in flight began
    calls,       \* number of append_deed_event calls begun so far
    acked,       \* the self_hash values append_deed_event returned Ok, in order
    appended,    \* the events of those calls as they were in memory, in order
    durable,     \* how many leading units of the file have reached durable storage
    tampers,     \* number of edits made to the stored file from outside
    vres,        \* what the last validate_ledger call returned
    last,        \* the operation that took the last step
    vEvent,      \* validator: the event handed to validate_new_event
    vExpected,   \* validator: the expected_prev_hash handed to it
    vResult,     \* validator: what validate_new_event returned
    rec,         \* church_of_fear_ledger: the DeedEvent being linked
    recLinks,    \* church_of_fear_ledger: the prev_hash values it was linked to, in order
    mrec,        \* microspace observer: the DeedEvent being linked
    mrecLinks,   \* microspace observer: the prev_hash values it was linked to, in order
    sEvent,      \* scoring: the record the advisory functions are called on
    sChurch,     \* scoring: <<church_recommendation()>> once called, else <<>>
    sMp,         \* scoring: <<moral_position_score()>> once called, in hundredths
    sGrant,      \* scoring: <<eco_grant_recommendation()>> once called, in 1/10000 units
    ECO_SPEC,    \* eco-fairness-guard: the EcoFairnessSpec behind the RwLock
    CURRENT_USAGE, \* eco-fairness-guard: per subject, <<>> (no entry) or <<EcoEnvelope>>
    shardOf,     \* eco-fairness-guard: the DashMap shard each subject's key hashes to
    shardLock,   \* eco-fairness-guard: per shard, the thread holding its write lock, or 0
    kpc,         \* per thread in check_route: "idle", "entry" or "viability"
    kcall,       \* per thread: the arguments and readings of its current or last call
    kres,        \* per thread: what its last check_route returned
    kcalls,      \* number of check_route calls begun so far
    admitted,    \* per subject, the sum of the demands of the calls that returned Ok
    core_deed_log, \* sovereignty core: SovereigntyCore.deed_log, the deeds logged so far
    observer,    \* microspace observer: its lattice of TreeStates and the length of its deed_log
    engine,      \* a ReputationEngine kept between calls: vector and predicate_history
    rvector,     \* <<vector, recommendation>> of the last compute on the kept engine, else <<>>
    rfresh,      \* the same from SovereigntyCore::reputation_engine (a new engine per call)
    rcomputes,   \* number of compute calls made so far
    fcfg,        \* neuromorph core: the FearNeuromorphConfig of the engine
    bio_state,   \* neuromorph core: the BioTokenState the caller passes in
    daily_turns, \* neuromorph core: the FearDailyTurnState the caller passes in
    fres,        \* neuromorph core: what the last call returned
    fpre,        \* neuromorph core: bio_state and daily_turns as they were before the last call
    fsucc,       \* neuromorph core: per today value, the number of calls that succeeded
    fcalls,      \* neuromorph core: number of calls made so far
    rk,          \* reversal kernel: public_keys, quorum_threshold, church_token_balance
    sov,         \* reversal kernel: the SovereigntyState the caller passes in
    audit,       \* reversal kernel: the audit log file, a sequence of written units
    overflow_checks, \* reversal kernel: TRUE in a build that panics on integer overflow
    rvreq,       \* reversal kernel: the arguments of the last call
    rvres,       \* reversal kernel: what the last call returned
    rvpre,       \* reversal kernel: sov, token balance and audit log before the last call
    rvcalls,     \* reversal kernel: number of calls made so far
    obs_deed_log, \* microspace observer: deed_log, the DeedEvents pushed by step
    current_hash, \* microspace observer: current_hash
    osteps,      \* microspace observer: number of step calls made so far
    bio_check,   \* Church-of-FEAR: per (roh, decay), whether validate_biophysical returns Ok
    eco_check,   \* Church-of-FEAR: per (roh, decay), whether EcoRegEnvelope::within_bounds holds
    rpc_req,     \* Church-of-FEAR: the JsonRpcRequest handed to handle_rpc last
    rpc_resp,    \* Church-of-FEAR: the JsonRpcResponse it returned
    mint_calls,  \* Church-of-FEAR: the arguments of the mint_church calls made, in order
    rpc_calls    \* Church-of-FEAR: number of handle_rpc calls made so far

ledgerVars ==
    <<exists, file, pc, ev, ret, pre, calls, acked, appended, durable, tampers, vres, last>>
validatorVars == <<vEvent, vExpected, vResult>>
linkVars == <<rec, recLinks, mrec, mrecLinks>>
scoreVars == <<sEvent, sChurch, sMp, sGrant>>
kernelVars == <<ECO_SPEC, CURRENT_USAGE, shardOf, shardLock, kpc, kcall, kres, kcalls, admitted>>
reputationVars == <<core_deed_log, observer, engine, rvector, rfresh, rcomputes>>
neuromorphVars == <<fcfg, bio_state, daily_turns, fres, fpre, fsucc, fcalls>>
reversalVars == <<rk, sov, audit, overflow_checks, rvreq, rvres, rvpre, rvcalls>>
observerLogVars == <<obs_deed_log, current_hash, osteps>>
rpcVars == <<bio_check, eco_check, rpc_req, rpc_resp, mint_calls, rpc_calls>>
moreVars == <<neuromorphVars, reversalVars, observerLogVars, rpcVars>>
vars ==
    <<ledgerVars, validatorVars, linkVars, scoreVars, kernelVars, reputationVars, moreVars>>

(***************************************************************************)
(* Bounds of the model.                                                    *)
(***************************************************************************)
MaxAppends == 3
MaxTamperAppends == 3
MaxTampers == 2
MaxConcAppends == 3
MaxFaultAppends == 3
MaxLinks == 3
MaxCrashAppends == 2
MaxChecks == 2
MaxConcChecks == 3
MaxLoadedChecks == 3
MaxReloadChecks == 2
MaxDeeds == 5
MaxSteps == 10
MaxEngineDeeds == 2
MaxEngineComputes == 2
MaxEvolves == 4
MaxReversals == 3
MaxObserverSteps == 4
MaxRpcCalls == 2

(***************************************************************************)
(* Input values the callers draw from.                                     *)
(***************************************************************************)
\* A literal string in a hash-typed field.
Str(s) == <<s>>

\* "0".repeat(64)
GenesisLen == 64
RECURSIVE Repeat(_, _)
Repeat(s, n) == IF n = 0 THEN "" ELSE s \o Repeat(s, n - 1)
GENESIS == Str(Repeat("0", GenesisLen))

EventIds == {"uuid-1", "uuid-2"}
Timestamps == {1767225600}
Actors == {"user-xboxtj"}
DeedTypes == {"ecological_sustainability"}
EthicsChoices == {<<>>, <<"RoH_CEILING_EXCEEDED">>}
Callers == {1, 2}

\* The arguments of one append_deed_event / DeedEvent::new call.
CleanInput ==
    [actor_id |-> "user-xboxtj",
     target_ids |-> <<"eco-project-1">>,
     deed_type |-> "ecological_sustainability",
     tags |-> <<"tree-of-life">>,
     context_json |-> "{}",
     ethics_flags |-> <<>>,
     life_harm_flag |-> FALSE]

DeedInputs ==
    [actor_id : Actors,
     target_ids : {<<"eco-project-1">>},
     deed_type : DeedTypes,
     tags : {<<"tree-of-life">>},
     context_json : {"{}"},
     ethics_flags : EthicsChoices,
     life_harm_flag : BOOLEAN]

(***************************************************************************)
(* Hashing.                                                                *)
(***************************************************************************)
\* Sha256 + lower-case hex of the digest.
Sha256Hex(t) == <<"sha256", t>>

\* church-ledger DeedEvent::canonical_json: every field but self_hash, keys sorted.
canonical_json(e) ==
    <<"actor_id", e.actor_id,
      "context_json", e.context_json,
      "deed_type", e.deed_type,
      "ethics_flags", e.ethics_flags,
      "event_id", e.event_id,
      "life_harm_flag", e.life_harm_flag,
      "prev_hash", e.prev_hash,
      "tags", e.tags,
      "target_ids", e.target_ids,
      "timestamp", e.timestamp>>

\* A canonical form that forgets to leave self_hash out.
canonical_json_with_self_hash(e) ==
    <<"actor_id", e.actor_id,
      "context_json", e.context_json,
      "deed_type", e.deed_type,
      "ethics_flags", e.ethics_flags,
      "event_id", e.event_id,
      "life_harm_flag", e.life_harm_flag,
      "prev_hash", e.prev_hash,
      "self_hash", e.self_hash,
      "tags", e.tags,
      "target_ids", e.target_ids,
      "timestamp", e.timestamp>>

\* compute_self_hash over a canonical form that includes self_hash.
compute_self_hash_circular(e) == Sha256Hex(canonical_json_with_self_hash(e))

\* church-ledger DeedEvent::compute_self_hash.
compute_self_hash(e) == Sha256Hex(canonical_json(e))

\* church-ledger DeedEvent::new, with the uuid and the clock reading it draws.
DeedEvent_new(prev_hash, in, id, ts) ==
    LET event == [event_id |-> id,
                  timestamp |-> ts,
                  prev_hash |-> prev_hash,
                  self_hash |-> Str(""),
                  actor_id |-> in.actor_id,
                  target_ids |-> in.target_ids,
                  deed_type |-> in.deed_type,
                  tags |-> in.tags,
                  context_json |-> in.context_json,
                  ethics_flags |-> in.ethics_flags,
                  life_harm_flag |-> in.life_harm_flag]
    IN  [event EXCEPT !.self_hash = compute_self_hash(event)]

(***************************************************************************)
(* The ledger file.  A written unit is the JSON of one event (one write of *)
(* writeln!), the newline that ends it (the second write), or a proper     *)
(* prefix of an event's JSON left by a write that failed part-way.         *)
(***************************************************************************)
\* serde_json::to_string(&event): the derived Serialize writes every field,
\* in the order the struct declares them.
to_string(e) ==
    <<"event_id", e.event_id,
      "timestamp", e.timestamp,
      "prev_hash", e.prev_hash,
      "self_hash", e.self_hash,
      "actor_id", e.actor_id,
      "target_ids", e.target_ids,
      "deed_type", e.deed_type,
      "tags", e.tags,
      "context_json", e.context_json,
      "ethics_flags", e.ethics_flags,
      "life_harm_flag", e.life_harm_flag>>

\* The value the JSON text t holds under key.
Field(t, key) ==
    t[(CHOOSE i \in {j \in 1..Len(t) : j % 2 = 1} : t[i] = key) + 1]

\* A deserializer that takes tags from the target_ids of the text.
from_str_tags_from_targets(t) ==
    [event_id |-> Field(t, "event_id"),
     timestamp |-> Field(t, "timestamp"),
     prev_hash |-> Field(t, "prev_hash"),
     self_hash |-> Field(t, "self_hash"),
     actor_id |-> Field(t, "actor_id"),
     target_ids |-> Field(t, "target_ids"),
     deed_type |-> Field(t, "deed_type"),
     tags |-> Field(t, "target_ids"),
     context_json |-> Field(t, "context_json"),
     ethics_flags |-> Field(t, "ethics_flags"),
     life_harm_flag |-> Field(t, "life_harm_flag")]

\* serde_json::from_str::<DeedEvent>: the derived Deserialize fills every
\* field from the value under the field's name.
from_str(t) ==
    [event_id |-> Field(t, "event_id"),
     timestamp |-> Field(t, "timestamp"),
     prev_hash |-> Field(t, "prev_hash"),
     self_hash |-> Field(t, "self_hash"),
     actor_id |-> Field(t, "actor_id"),
     target_ids |-> Field(t, "target_ids"),
     deed_type |-> Field(t, "deed_type"),
     tags |-> Field(t, "tags"),
     context_json |-> Field(t, "context_json"),
     ethics_flags |-> Field(t, "ethics_flags"),
     life_harm_flag |-> Field(t, "life_harm_flag")]

\* A unit holds the text that was written: the whole JSON of an event, or
\* the JSON a failed write cut short.
JsonUnit(e) == [k |-> "json", e |-> <<to_string(e)>>]
PartUnit(e) == [k |-> "part", e |-> <<to_string(e)>>]
NlUnit == [k |-> "nl", e |-> <<>>]

\* The event a complete JSON unit deserializes to.
Stored(u) == from_str(u.e[1])

\* BufRead::lines: the file split at newlines; a last line without newline is
\* yielded when it is not empty.
RECURSIVE SplitLines(_, _, _)
SplitLines(f, i, cur) ==
    IF i > Len(f) THEN (IF cur = <<>> THEN <<>> ELSE <<cur>>)
    ELSE IF f[i].k = "nl" THEN <<cur>> \o SplitLines(f, i + 1, <<>>)
    ELSE SplitLines(f, i + 1, Append(cur, f[i]))

Lines(f) == SplitLines(f, 1, <<>>)

\* serde_json::from_str::<DeedEvent> succeeds on a line holding exactly one
\* complete JSON object.
Parses(line) == Len(line) = 1 /\ line[1].k = "json"
Parsed(line) == Stored(line[1])

\* A walk that checks the links only.
RECURSIVE ValidateLinksOnly(_, _, _)
ValidateLinksOnly(ls, i, prev) ==
    IF i > Len(ls) THEN "true"
    ELSE IF ls[i] = <<>> THEN ValidateLinksOnly(ls, i + 1, prev)
    ELSE IF ~Parses(ls[i]) THEN "err"
    ELSE IF Parsed(ls[i]).prev_hash # prev THEN "false"
    ELSE ValidateLinksOnly(ls, i + 1, Parsed(ls[i]).self_hash)

\* validate_ledger's loop over the lines, from line i with prev_hash prev.
RECURSIVE ValidateFrom(_, _, _)
ValidateFrom(ls, i, prev) ==
    IF i > Len(ls) THEN "true"
    ELSE IF ls[i] = <<>> THEN ValidateFrom(ls, i + 1, prev)
    ELSE IF ~Parses(ls[i]) THEN "err"
    ELSE IF Parsed(ls[i]).prev_hash # prev THEN "false"
    ELSE IF compute_self_hash(Parsed(ls[i])) # Parsed(ls[i]).self_hash THEN "false"
    ELSE ValidateFrom(ls, i + 1, Parsed(ls[i]).self_hash)

\* validate_ledger: "true", "false" (Ok(true), Ok(false)) or "err" (Err).
validate_ledger(ex, f) ==
    IF ~ex THEN "err" ELSE ValidateFrom(Lines(f), 1, GENESIS)

\* A tail read that takes the first line instead of the last.
TailReadFirst(ex, f) ==
    IF ex /\ Lines(f) # <<>>
    THEN LET l == Lines(f)[1]
         IN  IF Parses(l) THEN [ok |-> TRUE, hash |-> Parsed(l).self_hash]
             ELSE [ok |-> FALSE, hash |-> Str("")]
    ELSE [ok |-> TRUE, hash |-> GENESIS]

\* The tail read at the start of append_deed_event: the prev_hash to use, or
\* an error when the last line does not parse.
TailRead(ex, f) ==
    IF ex /\ Lines(f) # <<>>
    THEN LET ls == Lines(f)
             l == ls[Len(ls)]
         IN  IF Parses(l) THEN [ok |-> TRUE, hash |-> Parsed(l).self_hash]
             ELSE [ok |-> FALSE, hash |-> Str("")]
    ELSE [ok |-> TRUE, hash |-> GENESIS]

NoReturn == [st |-> "none", hash |-> Str("")]
ReturnOk(h) == [st |-> "ok", hash |-> h]
ReturnErr(why) == [st |-> why, hash |-> Str("")]

(***************************************************************************)
(* append_deed_event, one action per step of a call by caller p.           *)
(***************************************************************************)
UNCHANGED_others ==
    UNCHANGED <<validatorVars, linkVars, scoreVars, kernelVars, reputationVars, moreVars>>
UNCHANGED_byValidator ==
    UNCHANGED <<ledgerVars, linkVars, scoreVars, kernelVars, reputationVars, moreVars>>
UNCHANGED_byLinking ==
    UNCHANGED <<ledgerVars, validatorVars, scoreVars, kernelVars, reputationVars, moreVars>>
UNCHANGED_byScoring ==
    UNCHANGED <<ledgerVars, validatorVars, linkVars, kernelVars, reputationVars, moreVars>>
UNCHANGED_byKernel ==
    UNCHANGED <<ledgerVars, validatorVars, linkVars, scoreVars, reputationVars, moreVars>>
UNCHANGED_byReputation ==
    UNCHANGED <<ledgerVars, validatorVars, linkVars, scoreVars, kernelVars, moreVars>>
UNCHANGED_byNeuromorph ==
    UNCHANGED <<ledgerVars, validatorVars, linkVars, scoreVars, kernelVars, reputationVars,
                reversalVars, observerLogVars, rpcVars>>
UNCHANGED_byReversal ==
    UNCHANGED <<ledgerVars, validatorVars, linkVars, scoreVars, kernelVars, reputationVars,
                neuromorphVars, observerLogVars, rpcVars>>
UNCHANGED_byObserverLog ==
    UNCHANGED <<ledgerVars, validatorVars, linkVars, scoreVars, kernelVars,
                neuromorphVars, reversalVars, rpcVars>>
UNCHANGED_byRpc ==
    UNCHANGED <<ledgerVars, validatorVars, linkVars, scoreVars, kernelVars, reputationVars,
                neuromorphVars, reversalVars, observerLogVars>>

\* Lines 128-149: read the tail and build the event.
AppendBegin(p, bound, inputs, ids) ==
    /\ pc[p] = "idle"
    /\ calls < bound
    /\ \E in \in inputs, id \in ids, ts \in Timestamps :
          LET t == TailRead(exists, file) IN
          IF t.ok
          THEN /\ ev' = [ev EXCEPT ![p] = <<DeedEvent_new(t.hash, in, id, ts)>>]
               /\ pc' = [pc EXCEPT ![p] = "json"]
               /\ ret' = [ret EXCEPT ![p] = NoReturn]
          ELSE /\ ret' = [ret EXCEPT ![p] = ReturnErr("err_parse")]
               /\ UNCHANGED <<ev, pc>>
    /\ pre' = [pre EXCEPT ![p] = file]
    /\ calls' = calls + 1
    /\ last' = "begin"
    /\ UNCHANGED <<exists, file, acked, appended, durable, tampers, vres>>
    /\ UNCHANGED_others

\* Lines 151-156: open with create+append, first write of writeln!: the JSON.
AppendWriteJson(p) ==
    /\ pc[p] = "json"
    /\ exists' = TRUE
    /\ file' = Append(file, JsonUnit(ev[p][1]))
    /\ pc' = [pc EXCEPT ![p] = "nl"]
    /\ last' = "json"
    /\ UNCHANGED <<ev, ret, pre, calls, acked, appended, durable, tampers, vres>>
    /\ UNCHANGED_others

\* Lines 156-157: second write of writeln!: the newline; return the self_hash.
AppendWriteNl(p) ==
    /\ pc[p] = "nl"
    /\ file' = Append(file, NlUnit)
    /\ pc' = [pc EXCEPT ![p] = "idle"]
    /\ ret' = [ret EXCEPT ![p] = ReturnOk(ev[p][1].self_hash)]
    /\ ev' = [ev EXCEPT ![p] = <<>>]
    /\ acked' = Append(acked, ev[p][1].self_hash)
    /\ appended' = Append(appended, ev[p][1])
    /\ last' = "nl"
    /\ UNCHANGED <<exists, pre, calls, durable, tampers, vres>>
    /\ UNCHANGED_others

\* validate_ledger on the file as it is.
Validate ==
    /\ vres' = validate_ledger(exists, file)
    /\ last' = "validate"
    /\ UNCHANGED <<exists, file, pc, ev, ret, pre, calls, acked, appended, durable, tampers>>
    /\ UNCHANGED_others

(***************************************************************************)
(* eco-fairness-guard: envelopes, the policy and the kernel's results.     *)
(* The f64 dimensions of an EcoEnvelope are carried in tenths of their     *)
(* unit (850.0 W is 8500, 2.5 kg is 25), the RoH values in hundredths.     *)
(***************************************************************************)
Envelope(power, kwh, heat, co2e, water) ==
    [max_power_watts |-> power,
     max_daily_kwh |-> kwh,
     max_heat_output |-> heat,
     max_co2e_kg |-> co2e,
     max_water_liters |-> water]

\* impl Default for EcoEnvelope.
EcoEnvelope_default == Envelope(8500, 180, 450, 25, 150)

\* impl Default for EcoFairnessSpec.
EcoFairnessSpec_default ==
    [global_roh_ceiling |-> 30,
     global_envelope |-> EcoEnvelope_default,
     per_route_budgets |->
         [r \in {"altar"} |-> [EcoEnvelope_default EXCEPT !.max_power_watts = 4200,
                                                          !.max_daily_kwh = 80]],
     per_subject_minimums |-> [u \in {} |-> EcoEnvelope_default],
     altar_routes |-> <<"altar", "donation", "lesson">>]

Subjects == {"subject-a", "subject-b"}
Shards == {1, 2}
Threads == {1, 2}

NoCall ==
    [subject |-> "", route |-> "", demand |-> Envelope(0, 0, 0, 0, 0), roh |-> 0, viable |-> TRUE]

\* Result<(), GuardError>, and "none" while no call has returned.
NoResult == [st |-> "none", resource |-> "", demand |-> 0, limit |-> 0]
GuardOk == [st |-> "Ok", resource |-> "", demand |-> 0, limit |-> 0]
GuardErr(why) == [st |-> why, resource |-> "", demand |-> 0, limit |-> 0]
BudgetExceeded(resource, demand, limit) ==
    [st |-> "BudgetExceeded", resource |-> resource, demand |-> demand, limit |-> limit]

KernelIdle ==
    /\ ECO_SPEC = EcoFairnessSpec_default
    /\ CURRENT_USAGE = [u \in Subjects |-> <<>>]
    /\ shardOf = [u \in Subjects |-> 1]
    /\ shardLock = [h \in Shards |-> 0]
    /\ kpc = [t \in Threads |-> "idle"]
    /\ kcall = [t \in Threads |-> NoCall]
    /\ kres = [t \in Threads |-> NoResult]
    /\ kcalls = 0
    /\ admitted = [u \in Subjects |-> Envelope(0, 0, 0, 0, 0)]

(***************************************************************************)
(* Initial states.                                                         *)
(***************************************************************************)
NoDeed ==
    [event_id |-> "", timestamp |-> 0, prev_hash |-> Str(""), self_hash |-> Str(""),
     actor_id |-> "", target_ids |-> <<>>, deed_type |-> "", tags |-> <<>>,
     context_json |-> "", ethics_flags |-> <<>>, life_harm_flag |-> FALSE]

LedgerInit ==
    /\ exists \in BOOLEAN
    /\ file = <<>>
    /\ pc = [p \in Callers |-> "idle"]
    /\ ev = [p \in Callers |-> <<>>]
    /\ ret = [p \in Callers |-> NoReturn]
    /\ pre = [p \in Callers |-> <<>>]
    /\ calls = 0
    /\ acked = <<>>
    /\ appended = <<>>
    /\ durable = 0
    /\ tampers = 0
    /\ vres = "none"
    /\ last = "init"

ValidatorIdle ==
    /\ vEvent = NoDeed
    /\ vExpected = Str("")
    /\ vResult = "none"

LinkIdle ==
    /\ rec = NoDeed
    /\ recLinks = <<>>
    /\ mrec = NoDeed
    /\ mrecLinks = <<>>

ScoreIdle ==
    /\ sEvent = NoDeed
    /\ sChurch = <<>>
    /\ sMp = <<>>
    /\ sGrant = <<>>

\* #[derive(Default)] of ReputationVector: every score 0.0.
ReputationVector_default ==
    [privacy |-> 0, compliance |-> 0, eco_align |-> 0, clin_trust |-> 0, mp_score |-> 0]

\* ReputationEngine::new(); asset_weights is never read and is left out.
ReputationEngine_new == [vector |-> ReputationVector_default, predicate_history |-> <<>>]

ReputationIdle ==
    /\ core_deed_log = <<>>
    /\ observer = [lattice |-> <<>>, deed_log |-> 0]
    /\ engine = ReputationEngine_new
    /\ rvector = <<>>
    /\ rfresh = <<>>
    /\ rcomputes = 0

\* No neuromorph engine in use.
NoFearConfig == [max_flops_per_turn |-> 0, max_eco_energy_nj |-> 0,
                 min_microstep_scale |-> 0, max_daily_turns |-> 0]

NeuromorphIdle ==
    /\ fcfg = NoFearConfig
    /\ bio_state = 0
    /\ daily_turns = [date_yyyymmdd |-> 0, turns_used |-> 0]
    /\ fres = [op |-> "none", st |-> "none"]
    /\ fpre = <<>>
    /\ fsucc = <<>>
    /\ fcalls = 0

\* The SovereigntyState of the usage example (lines 278-287); roh_value is
\* never read and is left out.
SovereigntyState(power, no_rollback) ==
    [user_id |-> "XboxTeeJay", capability_tier |-> "CapGeneralUse", power |-> power,
     tech |-> 100, nano |-> 100, evolution_index |-> 1, no_rollback |-> no_rollback]

\* ReversalProtectionKernel::new.
ReversalProtectionKernel_new(public_keys, quorum_threshold) ==
    [public_keys |-> public_keys, quorum_threshold |-> quorum_threshold,
     church_token_balance |-> 0]

NoRequest == [op |-> "none"]

ReversalIdle ==
    /\ rk = ReversalProtectionKernel_new({}, 0)
    /\ sov = SovereigntyState(100, TRUE)
    /\ audit = <<>>
    /\ overflow_checks = FALSE
    /\ rvreq = NoRequest
    /\ rvres = "none"
    /\ rvpre = <<>>
    /\ rvcalls = 0

\* MicrospaceRightsObserver::new: current_hash is "0".repeat(64).
ZeroHash == Str("0000000000000000000000000000000000000000000000000000000000000000")

\* An observer with no step made.
ObserverLogIdle == obs_deed_log = <<>> /\ current_hash = ZeroHash /\ osteps = 0

NoRpc == [method |-> "none"]

\* No RPC server in use.
RpcIdle ==
    /\ bio_check = <<>>
    /\ eco_check = <<>>
    /\ rpc_req = NoRpc
    /\ rpc_resp = NoRpc
    /\ mint_calls = <<>>
    /\ rpc_calls = 0

MoreIdle == NeuromorphIdle /\ ReversalIdle /\ ObserverLogIdle /\ RpcIdle

(***************************************************************************)
(* Sequential appends by one caller, no faults.                            *)
(***************************************************************************)
InitSeq == LedgerInit /\ ValidatorIdle /\ LinkIdle /\ ScoreIdle /\ KernelIdle /\ ReputationIdle /\ MoreIdle

NextSeq ==
    \/ AppendBegin(1, MaxAppends, DeedInputs, EventIds)
    \/ AppendWriteJson(1)
    \/ AppendWriteNl(1)
    \/ Validate

SpecSeq == InitSeq /\ [][NextSeq]_vars


(***************************************************************************)
(* Sequential appends, with edits of the stored file from outside (the     *)
(* file is plain JSON lines: any field of a stored record can be           *)
(* rewritten, a self_hash can be recomputed after an edit, a blank line    *)
(* can be added).                                                          *)
(***************************************************************************)
\* The self_hash of the stored record before unit i, if there is one.
RECURSIVE PredecessorHash(_, _)
PredecessorHash(f, i) ==
    IF i <= 1 THEN {}
    ELSE IF f[i - 1].k = "json" THEN {Stored(f[i - 1]).self_hash}
    ELSE PredecessorHash(f, i - 1)

TamperedRecords(f, i) ==
    LET e == Stored(f[i]) IN
    {[e EXCEPT !.prev_hash = h] : h \in {GENESIS, Str("deadbeef")} \cup PredecessorHash(f, i)}
        \cup {[e EXCEPT !.self_hash = h] : h \in {Str("deadbeef"), compute_self_hash(e)}}
        \cup {[e EXCEPT !.actor_id = "mallory"]}

TamperRecord ==
    /\ tampers < MaxTampers
    /\ \E i \in 1..Len(file) :
          /\ file[i].k = "json"
          /\ \E t \in TamperedRecords(file, i) :
                /\ t # Stored(file[i])
                /\ file' = [file EXCEPT ![i] = JsonUnit(t)]
    /\ tampers' = tampers + 1
    /\ last' = "tamper"
    /\ UNCHANGED <<exists, pc, ev, ret, pre, calls, acked, appended, durable, vres>>
    /\ UNCHANGED_others

TamperBlankLine ==
    /\ tampers < MaxTampers
    /\ pc[1] = "idle"
    /\ exists
    /\ file' = Append(file, NlUnit)
    /\ tampers' = tampers + 1
    /\ last' = "tamper"
    /\ UNCHANGED <<exists, pc, ev, ret, pre, calls, acked, appended, durable, vres>>
    /\ UNCHANGED_others

NextTamper ==
    \/ AppendBegin(1, MaxTamperAppends, {CleanInput}, {"uuid-1"})
    \/ AppendWriteJson(1)
    \/ AppendWriteNl(1)
    \/ TamperRecord
    \/ TamperBlankLine
    \/ Validate

SpecTamper == InitSeq /\ [][NextTamper]_vars

(***************************************************************************)
(* Two callers of append_deed_event on the same path.  The function takes  *)
(* no lock: the steps of the two calls interleave freely.                  *)
(***************************************************************************)
NextConc ==
    \/ \E p \in Callers : AppendBegin(p, MaxConcAppends, {CleanInput}, EventIds)
    \/ \E p \in Callers : AppendWriteJson(p)
    \/ \E p \in Callers : AppendWriteNl(p)
    \/ Validate

SpecConc == InitSeq /\ [][NextConc]_vars

(***************************************************************************)
(* One caller, with the failures the operating system can answer the       *)
(* writes of writeln! with: the first write (the JSON) fails with nothing  *)
(* or with only a prefix of the JSON written, or the second write (the     *)
(* newline) fails after the JSON was written.                              *)
(***************************************************************************)
\* Lines 151-156: the open succeeded; the write of the JSON fails.
AppendWriteJsonFails(p) ==
    /\ pc[p] = "json"
    /\ exists' = TRUE
    /\ \E partial \in BOOLEAN :
          file' = IF partial THEN Append(file, PartUnit(ev[p][1])) ELSE file
    /\ pc' = [pc EXCEPT ![p] = "idle"]
    /\ ret' = [ret EXCEPT ![p] = ReturnErr("err_io")]
    /\ ev' = [ev EXCEPT ![p] = <<>>]
    /\ last' = "json_fails"
    /\ UNCHANGED <<pre, calls, acked, appended, durable, tampers, vres>>
    /\ UNCHANGED_others

\* Line 156: the JSON is written; the write of the newline fails.
AppendWriteNlFails(p) ==
    /\ pc[p] = "nl"
    /\ pc' = [pc EXCEPT ![p] = "idle"]
    /\ ret' = [ret EXCEPT ![p] = ReturnErr("err_io")]
    /\ ev' = [ev EXCEPT ![p] = <<>>]
    /\ last' = "nl_fails"
    /\ UNCHANGED <<exists, file, pre, calls, acked, appended, durable, tampers, vres>>
    /\ UNCHANGED_others

NextFault ==
    \/ AppendBegin(1, MaxFaultAppends, {CleanInput}, EventIds)
    \/ AppendWriteJson(1)
    \/ AppendWriteNl(1)
    \/ AppendWriteJsonFails(1)
    \/ AppendWriteNlFails(1)
    \/ Validate

SpecFault == InitSeq /\ [][NextFault]_vars

(***************************************************************************)
(* One caller, with the operating system between the file and the disk.    *)
(* append_deed_event writes through an unbuffered File and returns; it     *)
(* calls neither flush, sync_data nor sync_all (lines 151-157), so what it *)
(* wrote sits in the page cache until the kernel writes it back.  A power  *)
(* loss or kernel crash keeps what was written back and loses the rest.    *)
(***************************************************************************)
\* The content of the file that is on durable storage.
DurableFile == SubSeq(file, 1, durable)

\* The kernel writes the next dirty unit back, at a time of its choosing.
Writeback ==
    /\ durable < Len(file)
    /\ durable' = durable + 1
    /\ last' = "writeback"
    /\ UNCHANGED <<exists, file, pc, ev, ret, pre, calls, acked, appended, tampers, vres>>
    /\ UNCHANGED_others

\* Power loss: the call in flight dies, the file is what had reached the disk.
Crash ==
    /\ durable < Len(file) \/ pc[1] # "idle"
    /\ file' = DurableFile
    /\ pc' = [p \in Callers |-> "idle"]
    /\ ev' = [p \in Callers |-> <<>>]
    /\ last' = "crash"
    /\ UNCHANGED <<exists, ret, pre, calls, acked, appended, durable, tampers, vres>>
    /\ UNCHANGED_others

NextCrash ==
    \/ AppendBegin(1, MaxCrashAppends, {CleanInput}, EventIds)
    \/ AppendWriteJson(1)
    \/ AppendWriteNl(1)
    \/ Writeback
    \/ Crash
    \/ Validate

SpecCrash == InitSeq /\ [][NextCrash]_vars

(***************************************************************************)
(* church_of_fear_ledger: DeedEvent, its hash linking, and the validator   *)
(* of new events.  The microspace rights observer's DeedEvent has the same *)
(* fields and links the same way.                                          *)
(***************************************************************************)
\* serde_json::to_string of the derived Serialize: all fields, declared order.
SerdeJson(e) ==
    <<"event_id", e.event_id,
      "timestamp", e.timestamp,
      "prev_hash", e.prev_hash,
      "self_hash", e.self_hash,
      "actor_id", e.actor_id,
      "target_ids", e.target_ids,
      "deed_type", e.deed_type,
      "tags", e.tags,
      "context_json", e.context_json,
      "ethics_flags", e.ethics_flags,
      "life_harm_flag", e.life_harm_flag>>

\* church_of_fear_ledger DeedEvent::compute_self_hash.
Ledger_compute_self_hash(e) == Sha256Hex(SerdeJson(e))

\* church_of_fear_ledger DeedEvent::new.
Ledger_DeedEvent_new(in, id, ts) ==
    [event_id |-> id,
     timestamp |-> ts,
     prev_hash |-> Str(""),
     self_hash |-> Str(""),
     actor_id |-> in.actor_id,
     target_ids |-> in.target_ids,
     deed_type |-> in.deed_type,
     tags |-> in.tags,
     context_json |-> in.context_json,
     ethics_flags |-> <<>>,
     life_harm_flag |-> FALSE]

\* church_of_fear_ledger DeedEvent::finalize_hash_chain.
Ledger_finalize_hash_chain(e, prev_hash) ==
    LET linked == [e EXCEPT !.prev_hash = prev_hash]
    IN  [linked EXCEPT !.self_hash = Ledger_compute_self_hash(linked)]

\* microspace observer DeedEvent::compute_hash.
Observer_compute_hash(e) == Sha256Hex(SerdeJson(e))

\* microspace observer DeedEvent::new.
Observer_DeedEvent_new(actor_id, deed_type, context, id, ts) ==
    LET event == [event_id |-> id,
                  timestamp |-> ts,
                  prev_hash |-> Str(""),
                  self_hash |-> Str(""),
                  actor_id |-> actor_id,
                  target_ids |-> <<>>,
                  deed_type |-> deed_type,
                  tags |-> <<"rights_management", "nature_respect">>,
                  context_json |-> context,
                  ethics_flags |-> <<>>,
                  life_harm_flag |-> FALSE]
    IN  [event EXCEPT !.self_hash = Observer_compute_hash(event)]

\* A link_to_prev that rehashes the record without storing the hash it was given.
Observer_link_to_prev_unlinked(e, prev_hash) ==
    [e EXCEPT !.self_hash = Observer_compute_hash(e)]

\* microspace observer DeedEvent::link_to_prev.
Observer_link_to_prev(e, prev_hash) ==
    LET linked == [e EXCEPT !.prev_hash = prev_hash]
    IN  [linked EXCEPT !.self_hash = Observer_compute_hash(linked)]

\* A validator that checks the chain link before the content.
validate_new_event_link_first(event, expected_prev_hash) ==
    IF expected_prev_hash # Str("genesis") /\ event.prev_hash # expected_prev_hash
    THEN "HashMismatch"
    ELSE IF event.life_harm_flag THEN "LifeHarm"
    ELSE IF event.ethics_flags # <<>> THEN "EthicsViolation"
    ELSE "Ok"

\* LedgerValidator::validate_new_event: "Ok" or the ValidationError variant.
validate_new_event(event, expected_prev_hash) ==
    IF event.life_harm_flag THEN "LifeHarm"
    ELSE IF event.ethics_flags # <<>> THEN "EthicsViolation"
    ELSE IF expected_prev_hash # Str("genesis") /\ event.prev_hash # expected_prev_hash
    THEN "HashMismatch"
    ELSE "Ok"

(***************************************************************************)
(* validate_new_event applied to the events a caller can hand it: built by *)
(* DeedEvent::new, with the public flag fields set, linked by              *)
(* finalize_hash_chain or not, with any self_hash.                         *)
(***************************************************************************)
LedgerDeedInputs ==
    {[actor_id |-> "user-xboxtj", target_ids |-> <<>>,
      deed_type |-> "ecological_sustainability",
      tags |-> <<"reforestation", "carbon_negative">>,
      context_json |-> "{\"evidence_url\":\"https://example.org/e\"}"],
     [actor_id |-> "user-xboxtj", target_ids |-> <<>>,
      deed_type |-> "math_science_education",
      tags |-> <<"open_source", "rust">>,
      context_json |-> "{\"crate\":\"sci\",\"license\":\"MIT/Apache-2.0\"}"]}

FirstRecord ==
    Ledger_finalize_hash_chain(
        Ledger_DeedEvent_new(CHOOSE in \in LedgerDeedInputs : in.deed_type = "math_science_education",
                             "uuid-0", 1767225600),
        GENESIS)

PrevHashes == {GENESIS, Str("genesis"), Str(""), Str("deadbeef"), FirstRecord.self_hash}

\* The events handed to the validator: flags set, linked to prev or left as built,
\* self_hash as the crate computes it, as the canonical form gives it, or forged.
CandidateEvents ==
    UNION {
        LET flagged == [Ledger_DeedEvent_new(in, id, 1767225601)
                            EXCEPT !.ethics_flags = fl, !.life_harm_flag = harm]
            linked == [flagged EXCEPT !.prev_hash = prev]
        IN  {flagged,
             Ledger_finalize_hash_chain(flagged, prev),
             [linked EXCEPT !.self_hash = Sha256Hex(canonical_json(linked))],
             [linked EXCEPT !.self_hash = Str("deadbeef")]}
        : in \in LedgerDeedInputs, id \in {"uuid-1"}, fl \in EthicsChoices,
          harm \in BOOLEAN, prev \in PrevHashes}

ValidatorInit ==
    /\ vEvent \in CandidateEvents
    /\ vExpected \in PrevHashes
    /\ vResult = "none"

ValidateNewEvent ==
    /\ vResult = "none"
    /\ vResult' = validate_new_event(vEvent, vExpected)
    /\ UNCHANGED <<vEvent, vExpected>>
    /\ UNCHANGED_byValidator

InitValidator ==
    LedgerInit /\ ~exists /\ ValidatorInit /\ LinkIdle /\ ScoreIdle /\ KernelIdle /\ ReputationIdle /\ MoreIdle

NextValidator == ValidateNewEvent

SpecValidator == InitValidator /\ [][NextValidator]_vars

(***************************************************************************)
(* Hash linking: a church_of_fear_ledger event and an observer event, each *)
(* built once and then linked, possibly several times.                     *)
(***************************************************************************)
LinkHashes == {GENESIS, FirstRecord.self_hash}

LedgerNew ==
    /\ rec = NoDeed
    /\ \E in \in LedgerDeedInputs, id \in EventIds, ts \in Timestamps :
          rec' = Ledger_DeedEvent_new(in, id, ts)
    /\ UNCHANGED <<recLinks, mrec, mrecLinks>>
    /\ UNCHANGED_byLinking

LedgerFinalize ==
    /\ rec # NoDeed
    /\ Len(recLinks) < MaxLinks
    /\ \E prev \in LinkHashes :
          /\ rec' = Ledger_finalize_hash_chain(rec, prev)
          /\ recLinks' = Append(recLinks, prev)
    /\ UNCHANGED <<mrec, mrecLinks>>
    /\ UNCHANGED_byLinking

ObserverNew ==
    /\ mrec = NoDeed
    /\ \E dt \in {"resource_sharing", "eco_sustainability"}, id \in EventIds, ts \in Timestamps :
          mrec' = Observer_DeedEvent_new("observer", dt, "{}", id, ts)
    /\ UNCHANGED <<rec, recLinks, mrecLinks>>
    /\ UNCHANGED_byLinking

ObserverLink ==
    /\ mrec # NoDeed
    /\ Len(mrecLinks) < MaxLinks
    /\ \E prev \in LinkHashes :
          /\ mrec' = Observer_link_to_prev(mrec, prev)
          /\ mrecLinks' = Append(mrecLinks, prev)
    /\ UNCHANGED <<rec, recLinks>>
    /\ UNCHANGED_byLinking

InitLink ==
    LedgerInit /\ ~exists /\ ValidatorIdle /\ LinkIdle /\ ScoreIdle /\ KernelIdle /\ ReputationIdle /\ MoreIdle

NextLink ==
    \/ LedgerNew
    \/ LedgerFinalize
    \/ ObserverNew
    \/ ObserverLink

SpecLink == InitLink /\ [][NextLink]_vars

(***************************************************************************)
(* The advisory functions of a record: church_recommendation of            *)
(* church_of_fear_ledger, moral_position_score and eco_grant_recommendation*)
(* of church-ledger.  The f64 values of the latter two are carried as      *)
(* integers: a score in hundredths, a grant in ten-thousandths.            *)
(***************************************************************************)
CHURCH_RECOMMEND_PER_GOOD_DEED == 1

GoodDeedTypes == {"ecological_sustainability", "homelessness_relief", "math_science_education"}

\* The records the advisory functions are called on.
ScoreEvents ==
    [event_id : {"uuid-1"},
     timestamp : Timestamps,
     prev_hash : {GENESIS},
     self_hash : {Str("")},
     actor_id : Actors,
     target_ids : {<<"eco-project-1">>},
     deed_type : GoodDeedTypes \cup {"resource_sharing", ""},
     tags : {<<>>, <<"tree-of-life">>, <<"homelessness_relief">>,
             <<"ecological_sustainability", "math_science_education", "npo-funding">>},
     context_json : {"{}"},
     ethics_flags : {<<>>, <<"RoH_CEILING_EXCEEDED">>,
                     <<"RoH_CEILING_EXCEEDED", "CONSENT_MISSING">>},
     life_harm_flag : BOOLEAN]

\* A recommendation that looks at life_harm_flag and deed_type only.
church_recommendation_ignoring_ethics(e) ==
    IF e.life_harm_flag THEN 0
    ELSE IF e.deed_type \in GoodDeedTypes THEN CHURCH_RECOMMEND_PER_GOOD_DEED
    ELSE 0

\* church_of_fear_ledger DeedEvent::church_recommendation.
church_recommendation(e) ==
    IF e.life_harm_flag THEN 0
    ELSE IF e.ethics_flags # <<>> THEN 0
    ELSE IF e.deed_type \in GoodDeedTypes THEN CHURCH_RECOMMEND_PER_GOOD_DEED
    ELSE 0

\* f64::clamp.
clamp(x, lo, hi) == IF x < lo THEN lo ELSE IF x > hi THEN hi ELSE x

\* church-ledger DeedEvent::moral_position_score, in hundredths.
moral_position_score(e) ==
    LET base == IF e.life_harm_flag THEN 0 ELSE 85
        ethics_penalty == Len(e.ethics_flags) * 15
        good_tags == Cardinality({i \in 1..Len(e.tags) : e.tags[i] \in GoodDeedTypes}) * 8
    IN  clamp(base - ethics_penalty + good_tags, 0, 100)

\* church-ledger DeedEvent::eco_grant_recommendation, in ten-thousandths.
eco_grant_recommendation(e) ==
    LET mp == moral_position_score(e)
        base_grant == CASE e.deed_type = "ecological_sustainability" -> 25
                        [] e.deed_type = "homelessness_relief" -> 30
                        [] e.deed_type = "math_science_education" -> 20
                        [] OTHER -> 10
    IN  base_grant * mp * (100 + Len(e.tags) * 5)

ChurchRecommendation ==
    /\ sChurch = <<>>
    /\ sChurch' = <<church_recommendation(sEvent)>>
    /\ UNCHANGED <<sEvent, sMp, sGrant>>
    /\ UNCHANGED_byScoring

MoralPositionScore ==
    /\ sMp = <<>>
    /\ sMp' = <<moral_position_score(sEvent)>>
    /\ UNCHANGED <<sEvent, sChurch, sGrant>>
    /\ UNCHANGED_byScoring

EcoGrantRecommendation ==
    /\ sGrant = <<>>
    /\ sGrant' = <<eco_grant_recommendation(sEvent)>>
    /\ UNCHANGED <<sEvent, sChurch, sMp>>
    /\ UNCHANGED_byScoring

InitScore ==
    /\ LedgerInit /\ ~exists
    /\ ValidatorIdle
    /\ LinkIdle
    /\ sEvent \in ScoreEvents
    /\ sChurch = <<>>
    /\ sMp = <<>>
    /\ sGrant = <<>>
    /\ KernelIdle
    /\ ReputationIdle /\ MoreIdle

NextScore ==
    \/ ChurchRecommendation
    \/ MoralPositionScore
    \/ EcoGrantRecommendation

SpecScore == InitScore /\ [][NextScore]_vars

(***************************************************************************)
(* eco-fairness-guard: GraceEquityKernel::check_route.  The RoH reading    *)
(* (RohModel::current_value) and the answer of the viability predicate     *)
(* (ViabilityKernel::is_viable) come from outside the crate: each call     *)
(* draws them.                                                             *)
(***************************************************************************)
\* A policy as EcoFairnessSpec::load reads it from config/.eco-fairness.aln:
\* the defaults, a route with a higher power and a lower kWh ceiling than the
\* global ones, a route configured under a capitalised key, and a minimum.
LoadedSpec ==
    [global_roh_ceiling |-> 30,
     global_envelope |-> EcoEnvelope_default,
     per_route_budgets |->
         [r \in {"altar", "sim", "Lab"} |->
             CASE r = "altar" -> Envelope(4200, 80, 450, 25, 150)
               [] r = "sim" -> Envelope(10000, 40, 450, 25, 150)
               [] r = "Lab" -> Envelope(2000, 180, 450, 25, 150)],
     per_subject_minimums |-> [u \in {"subject-b"} |-> Envelope(0, 250, 0, 0, 0)],
     altar_routes |-> <<"altar", "donation", "lesson">>]

Policies == {EcoFairnessSpec_default, LoadedSpec}

Routes == {"chat", "altar", "Donation", "sim", "Lab"}

Demands ==
    {Envelope(1000, 20, 100, 3, 10),
     Envelope(5000, 100, 100, 3, 10),
     Envelope(9000, 20, 100, 3, 10),
     Envelope(9000, 200, 100, 30, 10),
     Envelope(1000, 200, 100, 30, 10),
     Envelope(1000, 20, 500, 3, 10)}

RohReadings == {20, 35}

\* str::to_lowercase, on the route ids and policy keys of the model.
to_lowercase(str) ==
    CASE str = "Lab" -> "lab"
      [] str = "Donation" -> "donation"
      [] OTHER -> str

\* str::eq_ignore_ascii_case.
eq_ignore_ascii_case(a, b) == to_lowercase(a) = to_lowercase(b)

\* Lines 175-180: the envelope the ceiling checks use.
RouteEnvelope(spec, route) ==
    LET route_key == to_lowercase(route) IN
    IF route_key \in DOMAIN spec.per_route_budgets
    THEN spec.per_route_budgets[route_key]
    ELSE spec.global_envelope

\* Lines 182-205: the ceiling checks; <<>> when none rejects.
CeilingCheck(demand, envelope) ==
    IF demand.max_power_watts > envelope.max_power_watts
    THEN <<BudgetExceeded("power", demand.max_power_watts, envelope.max_power_watts)>>
    ELSE IF demand.max_daily_kwh > envelope.max_daily_kwh
    THEN <<BudgetExceeded("kWh", demand.max_daily_kwh, envelope.max_daily_kwh)>>
    ELSE IF demand.max_co2e_kg > envelope.max_co2e_kg
    THEN <<BudgetExceeded("CO2e_kg", demand.max_co2e_kg, envelope.max_co2e_kg)>>
    ELSE <<>>

\* An altar test that compares the route ids exactly.
IsAltarRouteExact(spec, route) ==
    \E i \in 1..Len(spec.altar_routes) : spec.altar_routes[i] = route

\* Lines 207-212: spec.altar_routes.iter().any(|r| r.eq_ignore_ascii_case(route)).
IsAltarRoute(spec, route) ==
    \E i \in 1..Len(spec.altar_routes) : eq_ignore_ascii_case(spec.altar_routes[i], route)

\* Lines 221-222: the equity floor test.
IsBelowMinimum(spec, subject, usage, demand) ==
    /\ subject \in DOMAIN spec.per_subject_minimums
    /\ usage.max_daily_kwh + demand.max_daily_kwh
          < spec.per_subject_minimums[subject].max_daily_kwh

\* A commit that takes the demand off the usage instead of adding it.
AddEnvelope_subtracting(usage, demand) ==
    Envelope(usage.max_power_watts - demand.max_power_watts,
             usage.max_daily_kwh - demand.max_daily_kwh,
             usage.max_heat_output - demand.max_heat_output,
             usage.max_co2e_kg - demand.max_co2e_kg,
             usage.max_water_liters - demand.max_water_liters)

\* Lines 236-240: usage += demand, dimension by dimension.
AddEnvelope(usage, demand) ==
    Envelope(usage.max_power_watts + demand.max_power_watts,
             usage.max_daily_kwh + demand.max_daily_kwh,
             usage.max_heat_output + demand.max_heat_output,
             usage.max_co2e_kg + demand.max_co2e_kg,
             usage.max_water_liters + demand.max_water_liters)

\* Lines 163-214: the spec is read-locked, the RoH is read, and the RoH,
\* ceiling and altar checks run; they touch no shared state.
CheckBegin(t, bound, subjects, routes, demands) ==
    /\ kpc[t] = "idle"
    /\ kcalls < bound
    /\ \E subject \in subjects, route \in routes, demand \in demands,
          current_roh \in RohReadings, viable \in BOOLEAN :
          LET spec == ECO_SPEC
              ceiling == CeilingCheck(demand, RouteEnvelope(spec, route))
              early ==
                  IF current_roh > spec.global_roh_ceiling THEN <<GuardErr("RohCeilingBreach")>>
                  ELSE IF ceiling # <<>> THEN ceiling
                  ELSE IF IsAltarRoute(spec, route) THEN <<GuardErr("AltarRequiresEvolve")>>
                  ELSE <<>>
          IN  /\ kcall' = [kcall EXCEPT ![t] =
                     [subject |-> subject, route |-> route, demand |-> demand,
                      roh |-> current_roh, viable |-> viable]]
              /\ IF early # <<>>
                 THEN /\ kres' = [kres EXCEPT ![t] = early[1]]
                      /\ UNCHANGED kpc
                 ELSE /\ kres' = [kres EXCEPT ![t] = NoResult]
                      /\ kpc' = [kpc EXCEPT ![t] = "entry"]
    /\ kcalls' = kcalls + 1
    /\ UNCHANGED <<ECO_SPEC, CURRENT_USAGE, shardOf, shardLock, admitted>>
    /\ UNCHANGED_byKernel

\* An entry step that takes no lock: the usage is read and the floor tested,
\* and other calls may reach the same entry before this one returns.
CheckEntry_unlocked(t) ==
    /\ kpc[t] = "entry"
    /\ LET subject == kcall[t].subject
           usage == IF CURRENT_USAGE[subject] = <<>> THEN EcoEnvelope_default
                    ELSE CURRENT_USAGE[subject][1]
       IN  /\ CURRENT_USAGE' = [CURRENT_USAGE EXCEPT ![subject] = <<usage>>]
           /\ IF IsBelowMinimum(ECO_SPEC, subject, usage, kcall[t].demand)
              THEN /\ kres' = [kres EXCEPT ![t] = GuardErr("BelowMinimum")]
                   /\ kpc' = [kpc EXCEPT ![t] = "idle"]
              ELSE /\ kpc' = [kpc EXCEPT ![t] = "viability"]
                   /\ UNCHANGED kres
    /\ UNCHANGED <<ECO_SPEC, shardOf, shardLock, kcall, kcalls, admitted>>
    /\ UNCHANGED_byKernel

\* Lines 217-227: CURRENT_USAGE.entry(subject).or_insert_with(EcoEnvelope::default)
\* takes the write lock of the subject's shard and inserts a default envelope
\* when the subject has no entry; then the equity floor is tested.  The
\* entry guard, and with it the lock, lives until check_route returns.
CheckEntry(t) ==
    /\ kpc[t] = "entry"
    /\ shardLock[shardOf[kcall[t].subject]] = 0
    /\ LET subject == kcall[t].subject
           usage == IF CURRENT_USAGE[subject] = <<>> THEN EcoEnvelope_default
                    ELSE CURRENT_USAGE[subject][1]
       IN  /\ CURRENT_USAGE' = [CURRENT_USAGE EXCEPT ![subject] = <<usage>>]
           /\ IF IsBelowMinimum(ECO_SPEC, subject, usage, kcall[t].demand)
              THEN /\ kres' = [kres EXCEPT ![t] = GuardErr("BelowMinimum")]
                   /\ kpc' = [kpc EXCEPT ![t] = "idle"]
                   /\ UNCHANGED shardLock
              ELSE /\ kpc' = [kpc EXCEPT ![t] = "viability"]
                   /\ shardLock' = [shardLock EXCEPT ![shardOf[subject]] = t]
                   /\ UNCHANGED kres
    /\ UNCHANGED <<ECO_SPEC, shardOf, kcall, kcalls, admitted>>
    /\ UNCHANGED_byKernel

\* Lines 230-243: the viability predicate is asked; on success the demand is
\* added to the subject's usage; the return drops the entry guard.
CheckCommit(t) ==
    /\ kpc[t] = "viability"
    /\ LET subject == kcall[t].subject
           demand == kcall[t].demand
       IN  IF ~kcall[t].viable
           THEN /\ kres' = [kres EXCEPT ![t] = GuardErr("ViabilityFailure")]
                /\ UNCHANGED <<CURRENT_USAGE, admitted>>
           ELSE /\ CURRENT_USAGE' = [CURRENT_USAGE EXCEPT ![subject] =
                                        <<AddEnvelope(CURRENT_USAGE[subject][1], demand)>>]
                /\ admitted' = [admitted EXCEPT ![subject] = AddEnvelope(admitted[subject], demand)]
                /\ kres' = [kres EXCEPT ![t] = GuardOk]
    /\ kpc' = [kpc EXCEPT ![t] = "idle"]
    /\ shardLock' = [shardLock EXCEPT ![shardOf[kcall[t].subject]] = 0]
    /\ UNCHANGED <<ECO_SPEC, shardOf, kcall, kcalls>>
    /\ UNCHANGED_byKernel

\* The shard a key falls in is decided by its hash: the subjects share a
\* shard or they do not.
ShardLayouts == [Subjects -> Shards]

OthersIdle ==
    /\ LedgerInit /\ ~exists
    /\ ValidatorIdle
    /\ LinkIdle
    /\ ScoreIdle
    /\ ReputationIdle /\ MoreIdle

KernelInit(policies) ==
    /\ ECO_SPEC \in policies
    /\ CURRENT_USAGE = [u \in Subjects |-> <<>>]
    /\ shardOf \in ShardLayouts
    /\ shardLock = [h \in Shards |-> 0]
    /\ kpc = [t \in Threads |-> "idle"]
    /\ kcall = [t \in Threads |-> NoCall]
    /\ kres = [t \in Threads |-> NoResult]
    /\ kcalls = 0
    /\ admitted = [u \in Subjects |-> Envelope(0, 0, 0, 0, 0)]

\* One thread: the calls run one after the other.
InitKernel == OthersIdle /\ KernelInit(Policies) /\ shardOf["subject-a"] = shardOf["subject-b"]

NextKernel ==
    \/ CheckBegin(1, MaxChecks, Subjects, Routes, Demands)
    \/ CheckEntry(1)
    \/ CheckCommit(1)

SpecKernel == InitKernel /\ [][NextKernel]_vars

\* Two threads calling check_route concurrently.
InitKernelConc == OthersIdle /\ KernelInit({EcoFairnessSpec_default})

NextKernelConc ==
    \/ \E t \in Threads :
          CheckBegin(t, MaxConcChecks, Subjects, {"chat"},
                     {Envelope(1000, 20, 100, 3, 10), Envelope(5000, 100, 100, 3, 10)})
    \/ \E t \in Threads : CheckEntry(t)
    \/ \E t \in Threads : CheckCommit(t)

SpecKernelConc == InitKernelConc /\ [][NextKernelConc]_vars


(***************************************************************************)
(* check_route under policies read from a policy file: one that gives a    *)
(* subject a minimum guarantee of 5 kWh, and one whose global_roh_ceiling  *)
(* is 0.50 (EcoFairnessSpec::load deserializes the file and checks no      *)
(* value).                                                                 *)
(***************************************************************************)
GuaranteeSpec ==
    [EcoFairnessSpec_default EXCEPT
        !.per_subject_minimums = [u \in {"subject-a"} |-> Envelope(0, 50, 0, 0, 0)]]

LaxRohSpec == [EcoFairnessSpec_default EXCEPT !.global_roh_ceiling = 50]

LoadedPolicies == {GuaranteeSpec, LaxRohSpec}

InitLoaded ==
    /\ OthersIdle
    /\ KernelInit(LoadedPolicies)
    /\ shardOf["subject-a"] = shardOf["subject-b"]

NextLoaded ==
    \/ CheckBegin(1, MaxLoadedChecks, Subjects, {"chat"}, {Envelope(1000, 20, 100, 3, 10)})
    \/ CheckEntry(1)
    \/ CheckCommit(1)

SpecLoaded == InitLoaded /\ [][NextLoaded]_vars


(***************************************************************************)
(* Two threads calling check_route concurrently under a loaded policy that *)
(* gives subject-b a minimum guarantee, so that the equity floor decides   *)
(* on the usage the call finds.                                            *)
(***************************************************************************)
InitFloorConc == OthersIdle /\ KernelInit({LoadedSpec})

SpecFloorConc == InitFloorConc /\ [][NextKernelConc]_vars


(***************************************************************************)
(* The policy lock.  ECO_SPEC is a parking_lot RwLock; check_route takes   *)
(* its read guard at line 163 and the guard lives until the call returns.  *)
(* The crate itself never takes the write lock: the reload the             *)
(* specification speaks of is modelled as a writer that, as the lock       *)
(* requires, waits until no read guard is held and then stores a whole     *)
(* policy.                                                                 *)
(***************************************************************************)
\* A call that lets go of the policy at once and reads it afresh at each use.
HoldsSpecGuard_dropped(t) == FALSE

\* Line 163: `let spec = ECO_SPEC.read();`, held from there to the return.
HoldsSpecGuard(t) == kpc[t] # "idle"

Reload(policies) ==
    /\ \A t \in Threads : ~HoldsSpecGuard(t)
    /\ \E p \in policies : p # ECO_SPEC /\ ECO_SPEC' = p
    /\ UNCHANGED <<CURRENT_USAGE, shardOf, shardLock, kpc, kcall, kres, kcalls, admitted>>
    /\ UNCHANGED_byKernel

ReloadBegin(t) ==
    CheckBegin(t, MaxReloadChecks, {"subject-b"}, {"chat", "sim"},
               {Envelope(1000, 20, 100, 3, 10), Envelope(9000, 20, 100, 3, 10)})

InitReload == OthersIdle /\ KernelInit(Policies)

NextReload ==
    \/ \E t \in Threads : ReloadBegin(t)
    \/ \E t \in Threads : CheckEntry(t)
    \/ \E t \in Threads : CheckCommit(t)
    \/ Reload(Policies)

SpecReload == InitReload /\ [][NextReload]_vars


(***************************************************************************)
(* augmented-citizen-sovereignty-core: the reputation vector.              *)
(*                                                                         *)
(* f64 scores are integers in ten-thousandths (0.95 is 9500, 1.0 is        *)
(* 10000); a product or quotient that is not a whole number of             *)
(* ten-thousandths is rounded down.  A deed is the three fields compute    *)
(* reads: node, deed_type (its words, "signed_bci" is <<"signed", "bci">>) *)
(* and life_harm_flag.  The observer is its lattice of TreeStates and the  *)
(* length of its deed_log, the only parts compute reads.                   *)
(***************************************************************************)
Deed(node, deed_type, life_harm_flag) ==
    [node |-> node, deed_type |-> deed_type, life_harm_flag |-> life_harm_flag]

\* The deeds the runs log, in the order the runs log them.
DeedKinds ==
    << Deed("Did", <<"did", "bind">>, FALSE),
       Deed("ScopeEeg", <<"consent", "eeg">>, FALSE),
       Deed("Target1", <<"high", "trust", "eeg">>, FALSE),
       Deed("Target1", <<"low", "energy", "run">>, TRUE),
       Deed("Target2", <<"signed", "bci">>, FALSE),
       Deed("Target2", <<"recovery", "trial">>, FALSE),
       Deed("Path1", <<"anchor">>, FALSE) >>

KindIndex(d) == CHOOSE i \in DOMAIN DeedKinds : DeedKinds[i] = d

\* str::contains("recovery") on the words of a deed_type.
contains_recovery(deed_type) == \E i \in DOMAIN deed_type : deed_type[i] = "recovery"

Least(a, b) == IF a < b THEN a ELSE b

TreeState(blood, oxygen, decay, lifeforce, fear, pain) ==
    [blood |-> blood, oxygen |-> oxygen, decay |-> decay,
     lifeforce |-> lifeforce, fear |-> fear, pain |-> pain]

\* MicrospaceRightsObserver::new(size).
MicrospaceRightsObserver_new(size) ==
    [lattice |-> [i \in 1..size |-> TreeState(8000, 8000, 2000, 8000, 3000, 2000)],
     deed_log |-> 0]

\* The loop of MicrospaceRightsObserver::step: the agents are updated in
\* place from the first to the last, so an agent sees the new lifeforce of
\* its left neighbour and the old one of its right neighbour.
RECURSIVE step_agents(_, _, _)
step_agents(lattice, i, load_factor) ==
    IF i > Len(lattice) THEN lattice
    ELSE LET left == IF i > 1 THEN lattice[i - 1].lifeforce \div 10 ELSE 0
             right == IF i < Len(lattice) THEN lattice[i + 1].lifeforce \div 10 ELSE 0
             s == lattice[i]
             moved == [s EXCEPT
                 !.lifeforce = clamp(s.lifeforce + left + right - (load_factor * 5) \div 100, 0, 10000),
                 !.decay = clamp(s.decay + (load_factor * 8) \div 100, 0, 10000),
                 !.fear = clamp(s.fear + (load_factor * 3) \div 100, 0, 10000)]
         IN  step_agents([lattice EXCEPT ![i] = moved], i + 1, load_factor)

calc_privacy(did_bound, consent_ok, events_in_scope) ==
    LET base == IF did_bound /\ consent_ok THEN 9500 ELSE 4500
    IN  clamp(base + Least(events_in_scope * 20, 500), 0, 10000)

calc_compliance(attested_count, anchor_count, life_harm_flags) ==
    LET base == IF attested_count > 0 /\ anchor_count > 0 THEN 9700 ELSE 5000
        penalty == Least(life_harm_flags * 1500, 4000)
    IN  clamp(base - penalty, 0, 10000)

calc_eco_align(low_energy_runs, unfair_drain_count, total_events) ==
    LET eco_frac_35 == (low_energy_runs * 3500) \div (IF total_events > 1 THEN total_events ELSE 1)
        drain_penalty == unfair_drain_count * 1200
    IN  clamp(6000 + eco_frac_35 - drain_penalty, 0, 10000)

\* A clinical-trust score that is not clamped.
calc_clin_trust_unclamped(signed_trials, recovery_events) ==
    7000 + Least(signed_trials * 400, 2500) + recovery_events * 300

calc_clin_trust(signed_trials, recovery_events) ==
    LET base == 7000 + Least(signed_trials * 400, 2500)
    IN  clamp(base + recovery_events * 300, 0, 10000)

normalize_tree_assets(state) ==
    clamp((state.blood * 12 + state.oxygen * 11 + state.lifeforce * 15
             + (10000 - state.fear) * 8 + (10000 - state.pain) * 7) \div 100
          + 1000 + 1300 + 1400 + 1000, 0, 10000)

RECURSIVE sum_assets(_, _)
sum_assets(lattice, i) ==
    IF i > Len(lattice) THEN 0
    ELSE normalize_tree_assets(lattice[i]) + sum_assets(lattice, i + 1)

avg_asset(obs) ==
    sum_assets(obs.lattice, 1) \div (IF Len(obs.lattice) > 1 THEN Len(obs.lattice) ELSE 1)

\* A compute that keeps what an earlier call stored: the unfair-drain
\* predicate is taken from the length of predicate_history.
compute_remembering(eng, log, obs) ==
    LET total_events == Len(log)
        low_energy_runs == Cardinality({i \in DOMAIN log : log[i].node = "Target1"})
        stable == obs.deed_log >= 10
        history == IF stable THEN Append(eng.predicate_history, <<TRUE, FALSE, TRUE, FALSE>>)
                   ELSE eng.predicate_history
        eco_align == calc_eco_align(low_energy_runs, IF Len(history) > 1 THEN 1 ELSE 0, total_events)
        mp == clamp((4500 * 25 + 5000 * 25 + eco_align * 25 + 7000 * 20 + avg_asset(obs) * 5) \div 100,
                    0, 10000)
    IN  [vector |-> [privacy |-> 4500, compliance |-> 5000, eco_align |-> eco_align,
                     clin_trust |-> 7000, mp_score |-> mp],
         predicate_history |-> history]

\* ReputationEngine::compute: the engine after the call; the vector it
\* returns is the one it stores.
compute(eng, log, obs) ==
    LET did_bound == \E i \in DOMAIN log : log[i].node = "Did"
        consent_ok == \E i \in DOMAIN log : log[i].node \in {"ScopeEeg", "ScopeBci"}
        attested_count ==
            Cardinality({i \in DOMAIN log : log[i].node = "Target1" /\ ~log[i].life_harm_flag})
        anchor_count == Cardinality({i \in DOMAIN log : log[i].node \in {"Path1", "Path2"}})
        low_energy_runs == Cardinality({i \in DOMAIN log : log[i].node = "Target1"})
        signed_trials == Cardinality({i \in DOMAIN log : log[i].node = "Target2"})
        life_harm_flags == Cardinality({i \in DOMAIN log : log[i].life_harm_flag})
        recovery_events == Cardinality({i \in DOMAIN log : contains_recovery(log[i].deed_type)})
        total_events == Len(log)
        stable == obs.deed_log >= 10
        recent_pred == IF stable THEN <<TRUE, FALSE, TRUE, FALSE>>
                       ELSE <<TRUE, FALSE, FALSE, FALSE>>
        pushed == Append(eng.predicate_history, recent_pred)
        history == IF ~stable THEN eng.predicate_history
                   ELSE IF Len(pushed) > 20 THEN Tail(pushed)
                   ELSE pushed
        privacy == calc_privacy(did_bound, consent_ok, total_events)
        compliance == calc_compliance(attested_count, anchor_count, life_harm_flags)
        eco_align == calc_eco_align(low_energy_runs, IF recent_pred[4] THEN 1 ELSE 0, total_events)
        clin_trust == calc_clin_trust(signed_trials, recovery_events)
        mp_score == clamp((privacy * 25 + compliance * 25 + eco_align * 25
                             + clin_trust * 20 + avg_asset(obs) * 5) \div 100, 0, 10000)
    IN  [vector |-> [privacy |-> privacy, compliance |-> compliance, eco_align |-> eco_align,
                     clin_trust |-> clin_trust, mp_score |-> mp_score],
         predicate_history |-> history]

\* ReputationEngine::recommend_eco_grant, by the label the string starts with.
recommend_eco_grant(vector) ==
    IF vector.mp_score > 8800 /\ vector.eco_align > 8200 THEN "eco_grant"
    ELSE IF vector.mp_score > 7500 THEN "civic_duty"
    ELSE "observe"

\* core.log_event(node, deed_type, context): one more deed in core.deed_log.
LogEvent(bound, kinds) ==
    /\ Len(core_deed_log) < bound
    /\ \E k \in kinds :
          /\ core_deed_log # <<>> => KindIndex(core_deed_log[Len(core_deed_log)]) <= k
          /\ core_deed_log' = Append(core_deed_log, DeedKinds[k])
    /\ UNCHANGED <<observer, engine, rvector, rfresh, rcomputes>>
    /\ UNCHANGED_byReputation

\* obs.step(0.08): the lattice moves and one deed is pushed to observer.deed_log.
ObserverStep ==
    /\ observer.deed_log < MaxSteps
    /\ observer' = [lattice |-> step_agents(observer.lattice, 1, 800),
                    deed_log |-> observer.deed_log + 1]
    /\ UNCHANGED <<core_deed_log, engine, rvector, rfresh, rcomputes>>
    /\ UNCHANGED_byReputation

\* engine.compute(&core, &obs) on the engine kept between calls, and
\* engine.recommend_eco_grant().
Compute(bound) ==
    /\ rcomputes < bound
    /\ engine' = compute(engine, core_deed_log, observer)
    /\ rvector' = <<[vector |-> engine'.vector,
                     recommendation |-> recommend_eco_grant(engine'.vector)]>>
    /\ rcomputes' = rcomputes + 1
    /\ UNCHANGED <<core_deed_log, observer, rfresh>>
    /\ UNCHANGED_byReputation

\* core.reputation_engine(&obs): a new engine, one compute, the vector cloned.
ReputationEngineCall ==
    /\ rfresh = <<>>
    /\ LET made == compute(ReputationEngine_new, core_deed_log, observer)
       IN  rfresh' = <<[vector |-> made.vector,
                        recommendation |-> recommend_eco_grant(made.vector)]>>
    /\ UNCHANGED <<core_deed_log, observer, engine, rvector, rcomputes>>
    /\ UNCHANGED_byReputation

LatticeSizes == {0, 2}

ReputationInit ==
    /\ LedgerInit /\ ~exists
    /\ ValidatorIdle
    /\ LinkIdle
    /\ ScoreIdle
    /\ KernelIdle
    /\ MoreIdle
    /\ core_deed_log = <<>>
    /\ \E size \in LatticeSizes : observer = MicrospaceRightsObserver_new(size)
    /\ engine = ReputationEngine_new
    /\ rvector = <<>>
    /\ rfresh = <<>>
    /\ rcomputes = 0

\* A core and an observer are built up, then the reputation is asked for.
NextReputation ==
    \/ rfresh = <<>> /\ LogEvent(MaxDeeds, DOMAIN DeedKinds)
    \/ rfresh = <<>> /\ ObserverStep
    \/ ReputationEngineCall

SpecReputation == ReputationInit /\ [][NextReputation]_vars

\* One engine kept and asked again while the core and the observer move on.
NextEngine ==
    \/ LogEvent(MaxEngineDeeds, {3, 5, 7})
    \/ ObserverStep
    \/ Compute(MaxEngineComputes)

SpecEngine == ReputationInit /\ [][NextEngine]_vars


(***************************************************************************)
(* church-of-fear-neuromorph-core: the daily turn state and                *)
(* try_evolve_neuromorph.                                                  *)
(*                                                                         *)
(* The router and applylifeforceguardedadjustment are collaborators from   *)
(* other crates: the route and the verdict of the lifeforce guard are      *)
(* inputs of a call.  A BioTokenState is the sum of the wave deltas        *)
(* applied to it; scales are in hundredths (1.0 is 100).                   *)
(***************************************************************************)
Days == {20260222, 20260223}

FearConfigs ==
    {[max_flops_per_turn |-> 100, max_eco_energy_nj |-> 100,
      min_microstep_scale |-> 10, max_daily_turns |-> m] : m \in {0, 1, 2}}

\* Lines 38-44.
can_consume_turn(self, max_turns, today) ==
    IF self.date_yyyymmdd # today THEN TRUE
    ELSE self.turns_used < max_turns

\* Lines 46-56: the state after the call and whether it returned Ok.
consume_turn(self, max_turns, today) ==
    LET reset == IF self.date_yyyymmdd # today
                 THEN [date_yyyymmdd |-> today, turns_used |-> 0]
                 ELSE self
    IN  IF reset.turns_used >= max_turns
        THEN [self |-> reset, ok |-> FALSE]
        ELSE [self |-> [reset EXCEPT !.turns_used = (reset.turns_used + 1) % 256], ok |-> TRUE]

\* Lines 129-132: raw_scale.max(min_microstep_scale).min(1.0).
micro_scale(raw_scale, cfg) ==
    LET floored == IF raw_scale > cfg.min_microstep_scale THEN raw_scale
                   ELSE cfg.min_microstep_scale
    IN  IF floored < 100 THEN floored ELSE 100

\* Lines 100-160.
TryEvolveNeuromorph ==
    /\ fcalls < MaxEvolves
    /\ \E route \in {"Safe", "Deny"}, estimated_flops \in {50, 200},
          estimated_energy_nj \in {50, 200}, proposed_scale_delta \in {5, 150}, lifeforce_ok \in BOOLEAN, today \in Days :
          LET consumed == consume_turn(daily_turns, fcfg.max_daily_turns, today)
              trial_state == bio_state + micro_scale(proposed_scale_delta, fcfg)
              done(st, state, daily) ==
                  /\ fres' = [op |-> "try_evolve_neuromorph", st |-> st]
                  /\ bio_state' = state
                  /\ daily_turns' = daily
                  /\ fsucc' = IF st = "Ok" THEN [fsucc EXCEPT ![today] = @ + 1] ELSE fsucc
          IN  IF route # "Safe" THEN done("NeuromorphDenied", bio_state, daily_turns)
              ELSE IF estimated_flops > fcfg.max_flops_per_turn
                      \/ estimated_energy_nj > fcfg.max_eco_energy_nj
              THEN done("EcoBudgetExceeded", bio_state, daily_turns)
              ELSE IF ~can_consume_turn(daily_turns, fcfg.max_daily_turns, today)
              THEN done("DailyTurnLimitReached", bio_state, daily_turns)
              ELSE IF ~lifeforce_ok THEN done("LifeforceViolation", bio_state, daily_turns)
              ELSE IF ~consumed.ok THEN done("DailyTurnLimitReached", bio_state, consumed.self)
              ELSE done("Ok", trial_state, consumed.self)
    /\ fpre' = <<[state |-> bio_state, daily |-> daily_turns]>>
    /\ fcalls' = fcalls + 1
    /\ UNCHANGED fcfg
    /\ UNCHANGED_byNeuromorph

\* daily_turns.consume_turn(max_daily_turns, today) called by the host itself.
ConsumeTurn ==
    /\ fcalls < MaxEvolves
    /\ \E today \in Days :
          LET consumed == consume_turn(daily_turns, fcfg.max_daily_turns, today)
          IN  /\ daily_turns' = consumed.self
              /\ fres' = [op |-> "consume_turn",
                          st |-> IF consumed.ok THEN "Ok" ELSE "DailyTurnLimitReached"]
              /\ fsucc' = IF consumed.ok THEN [fsucc EXCEPT ![today] = @ + 1] ELSE fsucc
    /\ fpre' = <<[state |-> bio_state, daily |-> daily_turns]>>
    /\ fcalls' = fcalls + 1
    /\ UNCHANGED <<fcfg, bio_state>>
    /\ UNCHANGED_byNeuromorph

InitNeuromorph ==
    /\ LedgerInit /\ ~exists
    /\ ValidatorIdle /\ LinkIdle /\ ScoreIdle /\ KernelIdle /\ ReputationIdle
    /\ ReversalIdle /\ ObserverLogIdle /\ RpcIdle
    /\ fcfg \in FearConfigs
    /\ bio_state = 0
    /\ \E d \in Days : daily_turns = [date_yyyymmdd |-> d, turns_used |-> 0]
    /\ fres = [op |-> "none", st |-> "none"]
    /\ fpre = <<>>
    /\ fsucc = [d \in Days |-> 0]
    /\ fcalls = 0

NextNeuromorph == TryEvolveNeuromorph \/ ConsumeTurn

SpecNeuromorph == InitNeuromorph /\ [][NextNeuromorph]_vars


(***************************************************************************)
(* src/kernel/reversal_protection_kernel.rs.                               *)
(*                                                                         *)
(* A u64 is written as the integer congruent to it modulo 2^64 that lies   *)
(* nearest to 0, so that 2^64 - 5 is written -5: adding a small number is  *)
(* then plain addition, and the sum has wrapped exactly when it went from  *)
(* below 0 to 0 or above.  A build with overflow checks panics there, a    *)
(* build without them goes on with the wrapped value.  Envelope values are *)
(* in hundredths.  An ed25519 signature is the key that made it and the    *)
(* message it was made over.  The audit log is the sequence of the units   *)
(* written to the file: a whole serialized record, a part of one, or a     *)
(* newline.                                                                *)
(***************************************************************************)
u64_overflows(a, b) == a < 0 /\ a + b >= 0

u64_lt(a, b) == IF (a < 0) = (b < 0) THEN a < b ELSE b < 0

BiophysicalEnvelope(current_value) ==
    [min_safe |-> 0, max_safe |-> 30, min_warn |-> 10, max_warn |-> 25,
     current_value |-> current_value]

ReversalEnvelopes == {BiophysicalEnvelope(20), BiophysicalEnvelope(26), BiophysicalEnvelope(5)}

DowngradeRequests ==
    {[new_tier |-> "CapLabBench", emergency |-> e, simulation_data |-> "data"] : e \in BOOLEAN}

AuthorizedKeys == {"k1", "k2"}

Signed(pk, signer, message) == <<pk, [signer |-> signer, message |-> message]>>

\* The signature lists the runs pass in: none, one authorized key, two
\* authorized keys, one authorized key twice, an outside key twice, and an
\* authorized key with a signature another key made in the second key's name.
SignatureLists(message) ==
    { <<>>,
      <<Signed("k1", "k1", message)>>,
      <<Signed("k1", "k1", message), Signed("k2", "k2", message)>>,
      <<Signed("k1", "k1", message), Signed("k1", "k1", message)>>,
      <<Signed("k3", "k3", message), Signed("k3", "k3", message)>>,
      <<Signed("k1", "k1", message), Signed("k2", "k3", message)>> }

\* PublicKey::verify.
verify(pk, message, sig) == sig.signer = pk /\ sig.message = message

\* A quorum check that counts the authorized keys with a valid signature.
verify_quorum_sig_authorized(kernel, message, signatures) ==
    Cardinality({pk \in kernel.public_keys :
                    \E i \in DOMAIN signatures :
                        signatures[i][1] = pk /\ verify(pk, message, signatures[i][2])})
        >= kernel.quorum_threshold

\* Lines 114-121: TRUE when the call returns Ok.
verify_quorum_sig(kernel, message, signatures) ==
    LET valid_sigs == Cardinality({i \in DOMAIN signatures :
                                      verify(signatures[i][1], message, signatures[i][2])})
    IN  ~(valid_sigs < kernel.quorum_threshold)

\* Lines 125-132.
compute_nosaferalternative(envelope) ==
    envelope.current_value > envelope.max_warn \/ envelope.current_value < envelope.min_warn

\* `field += amount` for each <<field, amount>> in order; a build with
\* overflow checks stops at the first sum that overflows.
RECURSIVE add_in_order(_, _, _, _)
add_in_order(state, adds, i, checks) ==
    IF i > Len(adds) THEN [state |-> state, panicked |-> FALSE]
    ELSE LET field == adds[i][1]
             amount == adds[i][2]
         IN  IF checks /\ u64_overflows(state[field], amount)
             THEN [state |-> state, panicked |-> TRUE]
             ELSE add_in_order([state EXCEPT ![field] = @ + amount], adds, i + 1, checks)

\* Lines 147-153 and 157-180: the kernel and the state after the call, and
\* what it returned.
resimulate_safe(kernel, state, envelope, checks) ==
    IF ~state.no_rollback
    THEN [kernel |-> kernel, state |-> state, st |-> "RollbackForbidden"]
    ELSE LET adds == IF compute_nosaferalternative(envelope) THEN << <<"nano", 1>> >>
                     ELSE << <<"evolution_index", 1>>, <<"power", 10>>, <<"tech", 10>> >>
             added == add_in_order(state, adds, 1, checks)
         IN  IF added.panicked
             THEN [kernel |-> kernel, state |-> added.state, st |-> "panic"]
             ELSE IF checks /\ u64_overflows(kernel.church_token_balance, 100)
             THEN [kernel |-> kernel, state |-> added.state, st |-> "panic"]
             ELSE [kernel |-> [kernel EXCEPT !.church_token_balance = @ + 100],
                   state |-> added.state, st |-> "Ok"]

AuditJson(record) == [k |-> "json", r |-> record]
AuditPart == [k |-> "part"]
AuditNl == [k |-> "nl"]

IoOutcomes == {"ok", "open_fails", "write_fails", "newline_fails"}

\* Lines 136-143: the file after the call; it returns Ok when io = "ok".
log_tamper_evident(log, record, io) ==
    IF io = "open_fails" THEN log
    ELSE IF io = "write_fails" THEN Append(log, AuditPart)
    ELSE IF io = "newline_fails" THEN Append(log, AuditJson(record))
    ELSE log \o <<AuditJson(record), AuditNl>>

\* BufRead::lines().last(): the units of the last line, without its newline.
LastLine(log) ==
    LET end == IF log[Len(log)].k = "nl" THEN Len(log) - 1 ELSE Len(log)
        breaks == {i \in 1..end : log[i].k = "nl"}
        start == IF breaks = {} THEN 1
                 ELSE (CHOOSE i \in breaks : \A j \in breaks : j <= i) + 1
    IN  SubSeq(log, start, end)

\* Lines 249-257, with unwrap_or_default: "" when there is no file, no line,
\* or a last line that is not one record.
get_last_hash(log) ==
    IF log = <<>> THEN Str("")
    ELSE LET line == LastLine(log)
         IN  IF Len(line) = 1 /\ line[1].k = "json" THEN line[1].r.self_hash
             ELSE Str("")

\* Lines 225-246.
create_audit_record(log, state, deed_type, timestamp, event_id) ==
    LET record == [timestamp |-> timestamp, event_id |-> event_id,
                   prev_hash |-> get_last_hash(log), self_hash |-> Str(""),
                   actor_id |-> state.user_id, deed_type |-> deed_type,
                   tags |-> <<"rights_protected">>, ethics_flags |-> <<>>,
                   life_harm_flag |-> FALSE, context_json |-> <<"state", state>>]
    IN  [record EXCEPT !.self_hash = Sha256Hex(AuditJson(record))]

\* Lines 192-222: kernel, state and audit log after the call, and what it
\* returned.
ensure_rights_held(kernel, state, log, envelope, request, signatures, io, timestamp, event_id, checks) ==
    LET message == <<"json", request>>
        same == [kernel |-> kernel, state |-> state, log |-> log]
    IN  IF ~verify_quorum_sig(kernel, message, signatures)
        THEN same @@ [st |-> "Unauthorized"]
        ELSE IF ~compute_nosaferalternative(envelope)
        THEN same @@ [st |-> "SaferAlternativeExists"]
        ELSE IF state.no_rollback /\ request.emergency
        THEN LET done == resimulate_safe(kernel, state, envelope, checks)
             IN  [kernel |-> done.kernel, state |-> done.state, log |-> log, st |-> done.st]
        ELSE LET downgraded == [state EXCEPT !.capability_tier = request.new_tier]
                 record == create_audit_record(log, downgraded, "emergency_downgrade",
                                               timestamp, event_id)
             IN  [kernel |-> kernel, state |-> downgraded,
                  log |-> log_tamper_evident(log, record, io),
                  st |-> IF io = "ok" THEN "Ok" ELSE "Io"]

ReversalSnapshot == <<[sov |-> sov, balance |-> rk.church_token_balance, audit |-> audit]>>

ResimulateSafe ==
    /\ rvcalls < MaxReversals
    /\ \E envelope \in ReversalEnvelopes :
          LET done == resimulate_safe(rk, sov, envelope, overflow_checks)
          IN  /\ rk' = done.kernel
              /\ sov' = done.state
              /\ rvres' = done.st
              /\ rvreq' = [op |-> "resimulate_safe", envelope |-> envelope]
    /\ rvpre' = ReversalSnapshot
    /\ rvcalls' = rvcalls + 1
    /\ UNCHANGED <<audit, overflow_checks>>
    /\ UNCHANGED_byReversal

EnsureRightsHeld ==
    /\ rvcalls < MaxReversals
    /\ \E envelope \in ReversalEnvelopes, request \in DowngradeRequests, io \in IoOutcomes :
          \E signatures \in SignatureLists(<<"json", request>>) :
             LET done == ensure_rights_held(rk, sov, audit, envelope, request, signatures, io,
                                            1771815840, <<"uuid", rvcalls + 1>>, overflow_checks)
             IN  /\ rk' = done.kernel
                 /\ sov' = done.state
                 /\ audit' = done.log
                 /\ rvres' = done.st
                 /\ rvreq' = [op |-> "ensure_rights_held", envelope |-> envelope,
                              request |-> request, signatures |-> signatures]
    /\ rvpre' = ReversalSnapshot
    /\ rvcalls' = rvcalls + 1
    /\ UNCHANGED overflow_checks
    /\ UNCHANGED_byReversal

InitReversal ==
    /\ LedgerInit /\ ~exists
    /\ ValidatorIdle /\ LinkIdle /\ ScoreIdle /\ KernelIdle /\ ReputationIdle
    /\ NeuromorphIdle /\ ObserverLogIdle /\ RpcIdle
    /\ rk = ReversalProtectionKernel_new(AuthorizedKeys, 2)
    /\ \E power \in {100, -5}, no_rollback \in BOOLEAN : sov = SovereigntyState(power, no_rollback)
    /\ audit = <<>>
    /\ overflow_checks \in BOOLEAN
    /\ rvreq = NoRequest
    /\ rvres = "none"
    /\ rvpre = <<>>
    /\ rvcalls = 0

NextReversal == ResimulateSafe \/ EnsureRightsHeld

SpecReversal == InitReversal /\ [][NextReversal]_vars


(***************************************************************************)
(* MicrospaceRightsObserver::step with its deed_log: the lattice moves and *)
(* one DeedEvent, linked to current_hash, is pushed.                       *)
(***************************************************************************)
LoadFactors == {0, 800}

Step ==
    /\ osteps < MaxObserverSteps
    /\ \E load_factor \in LoadFactors, id \in EventIds, ts \in Timestamps :
          LET deed == Observer_link_to_prev(
                          Observer_DeedEvent_new("system_observer", "resource_sharing",
                              <<"fairness_improved", TRUE, "eco_impact", "prevents_unfair_drain">>,
                              id, ts),
                          current_hash)
          IN  /\ observer' = [lattice |-> step_agents(observer.lattice, 1, load_factor),
                              deed_log |-> observer.deed_log + 1]
              /\ current_hash' = deed.self_hash
              /\ obs_deed_log' = Append(obs_deed_log, deed)
    /\ osteps' = osteps + 1
    /\ UNCHANGED <<core_deed_log, engine, rvector, rfresh, rcomputes>>
    /\ UNCHANGED_byObserverLog

InitObserver ==
    /\ LedgerInit /\ ~exists
    /\ ValidatorIdle /\ LinkIdle /\ ScoreIdle /\ KernelIdle
    /\ NeuromorphIdle /\ ReversalIdle /\ RpcIdle
    /\ core_deed_log = <<>>
    /\ \E size \in LatticeSizes : observer = MicrospaceRightsObserver_new(size)
    /\ engine = ReputationEngine_new
    /\ rvector = <<>>
    /\ rfresh = <<>>
    /\ rcomputes = 0
    /\ obs_deed_log = <<>>
    /\ current_hash = ZeroHash
    /\ osteps = 0

NextObserver == Step

SpecObserver == InitObserver /\ [][NextObserver]_vars


(***************************************************************************)
(* crates/Church-of-FEAR: handle_rpc and validate_deed.  roh and decay are *)
(* in hundredths.  ledger/deed_event.rs, compliance/eco_reg.rs,            *)
(* token/mint.rs and rpc/types.rs are not among the sources:               *)
(* validate_biophysical and within_bounds are functions of (roh, decay)    *)
(* fixed at the start of a run, each of them any function that lets        *)
(* tests/compliance_tests.rs pass; DeedEvent::new keeps the fields it is   *)
(* given, and mint_church's value is the term of its arguments.            *)
(***************************************************************************)
RohDecayInputs == {<<10, 20>>, <<90, 150>>}

Church_DeedEvent_new(prev_hash, actor_id, target_ids, deed_type, tags, context_json, ethics_flags, life_harm_flag) ==
    [prev_hash |-> prev_hash, actor_id |-> actor_id, target_ids |-> target_ids,
     deed_type |-> deed_type, tags |-> tags, context_json |-> context_json,
     ethics_flags |-> ethics_flags, life_harm_flag |-> life_harm_flag]

\* ledger/metrics.rs BioloadMetrics::new.
BioloadMetrics_new(bioload_delta, roh, decay) ==
    [bioload_delta |-> bioload_delta, roh |-> roh, decay |-> decay]

\* DeedEvent::validate_biophysical: TRUE when it returns Ok.
validate_biophysical(event, roh, decay) == bio_check[<<roh, decay>>]

\* EcoRegEnvelope::default().within_bounds.
within_bounds(roh, decay) == eco_check[<<roh, decay>>]

\* An is_clean that looks at life_harm_flag alone.
is_clean_ignoring_flags(ctx) == ~ctx.life_harm_flag

\* compliance/ethics.rs EthicsContext::is_clean.
is_clean(ctx) == ~ctx.life_harm_flag /\ ctx.flags = <<>>

\* compliance/validator.rs validate_deed: "Ok" or the error's message.
validate_deed(event, roh, decay) ==
    IF ~validate_biophysical(event, roh, decay) THEN "Biophysical violation"
    ELSE IF ~within_bounds(roh, decay) THEN "EcoReg envelope breach"
    ELSE IF ~is_clean([flags |-> event.ethics_flags, life_harm_flag |-> event.life_harm_flag])
    THEN "Ethics flags present"
    ELSE "Ok"

mint_church(deed, metrics) == <<"church", deed, metrics>>

JsonRpcResult(payload, id) ==
    [jsonrpc |-> "2.0", result |-> <<payload>>, error |-> <<>>, id |-> id]

JsonRpcFailure(code, message, data, id) ==
    [jsonrpc |-> "2.0", result |-> <<>>,
     error |-> <<[code |-> code, message |-> message, data |-> data]>>, id |-> id]

\* Lines 221-233.
invalid_params(id, detail) == JsonRpcFailure(-32602, "Invalid params", detail, id)

MintParams ==
    {[prev_hash |-> Str("genesis"), actor_id |-> "actor", target_ids |-> <<>>,
      deed_type |-> "ecological_sustainability", tags |-> <<>>, context_json |-> "{}",
      ethics_flags |-> f, life_harm_flag |-> h,
      bioload_delta |-> -5, roh |-> rd[1], decay |-> rd[2]] :
        f \in EthicsChoices, h \in BOOLEAN, rd \in RohDecayInputs}

ValidateParams ==
    {[deed |-> Church_DeedEvent_new(p.prev_hash, p.actor_id, p.target_ids, p.deed_type, p.tags,
                                    p.context_json, p.ethics_flags, p.life_harm_flag),
      roh |-> p.roh, decay |-> p.decay] : p \in MintParams}

\* Params that do not deserialize into the method's parameter type.
Malformed == [malformed |-> TRUE]

\* The requests handle_rpc is given.
JsonRpcRequests ==
    {[method |-> "auto_church.mint_deed", params |-> p, id |-> 1] :
        p \in MintParams \cup {Malformed}}
    \cup {[method |-> "auto_church.validate_deed", params |-> p, id |-> 1] :
        p \in ValidateParams \cup {Malformed}}
    \cup {[method |-> "auto_church.xr_visualize_ledger", params |-> p, id |-> 1] :
        p \in {[events |-> <<>>], Malformed}}
    \cup {[method |-> "auto_church.burn", params |-> Malformed, id |-> 1]}

\* Lines 97-219: the response, and the arguments of the mint_church calls
\* made on the way.
handle_rpc(req) ==
    IF req.method = "auto_church.mint_deed"
    THEN IF req.params = Malformed
         THEN [resp |-> invalid_params(req.id, "detail"), minted |-> <<>>]
         ELSE LET params == req.params
                  deed == Church_DeedEvent_new(params.prev_hash, params.actor_id,
                              params.target_ids, params.deed_type, params.tags,
                              params.context_json, params.ethics_flags, params.life_harm_flag)
                  metrics == BioloadMetrics_new(params.bioload_delta, params.roh, params.decay)
                  e == validate_deed(deed, metrics.roh, metrics.decay)
              IN  IF e # "Ok"
                  THEN [resp |-> JsonRpcFailure(1001, "Deed validation failed", e, req.id),
                        minted |-> <<>>]
                  ELSE [resp |-> JsonRpcResult([deed |-> deed, metrics |-> metrics,
                                                church_minted |-> mint_church(deed, metrics)],
                                               req.id),
                        minted |-> <<[deed |-> deed, metrics |-> metrics]>>]
    ELSE IF req.method = "auto_church.validate_deed"
    THEN IF req.params = Malformed
         THEN [resp |-> invalid_params(req.id, "detail"), minted |-> <<>>]
         ELSE LET res == validate_deed(req.params.deed, req.params.roh, req.params.decay)
              IN  [resp |-> JsonRpcResult(
                                IF res = "Ok" THEN [valid |-> TRUE, error_message |-> <<>>]
                                ELSE [valid |-> FALSE, error_message |-> <<res>>],
                                req.id),
                   minted |-> <<>>]
    ELSE IF req.method = "auto_church.xr_visualize_ledger"
    THEN IF req.params = Malformed
         THEN [resp |-> invalid_params(req.id, "detail"), minted |-> <<>>]
         ELSE [resp |-> JsonRpcResult([launched |-> TRUE], req.id), minted |-> <<>>]
    ELSE [resp |-> JsonRpcFailure(-32601, "Method not found", req.method, req.id),
          minted |-> <<>>]

HandleRpc ==
    /\ rpc_calls < MaxRpcCalls
    /\ \E req \in JsonRpcRequests :
          LET done == handle_rpc(req)
          IN  /\ rpc_req' = req
              /\ rpc_resp' = done.resp
              /\ mint_calls' = mint_calls \o done.minted
    /\ rpc_calls' = rpc_calls + 1
    /\ UNCHANGED <<bio_check, eco_check>>
    /\ UNCHANGED_byRpc

\* compliant_deed_passes and biophysical_violation_fails.
ComplianceTestsPass(bio, eco) ==
    /\ bio[<<10, 20>>] /\ eco[<<10, 20>>]
    /\ ~(bio[<<90, 150>>] /\ eco[<<90, 150>>])

InitRpc ==
    /\ LedgerInit /\ ~exists
    /\ ValidatorIdle /\ LinkIdle /\ ScoreIdle /\ KernelIdle /\ ReputationIdle
    /\ NeuromorphIdle /\ ReversalIdle /\ ObserverLogIdle
    /\ bio_check \in [RohDecayInputs -> BOOLEAN]
    /\ eco_check \in [RohDecayInputs -> BOOLEAN]
    /\ ComplianceTestsPass(bio_check, eco_check)
    /\ rpc_req = NoRpc
    /\ rpc_resp = NoRpc
    /\ mint_calls = <<>>
    /\ rpc_calls = 0

NextRpc == HandleRpc

SpecRpc == InitRpc /\ [][NextRpc]_vars

(***************************************************************************)
(* What a reader of the file sees.                                         *)
(***************************************************************************)
\* The lines of the file that are not blank.
RECURSIVE NonBlank(_)
NonBlank(ls) ==
    IF ls = <<>> THEN <<>>
    ELSE IF ls[1] = <<>> THEN NonBlank(Tail(ls))
    ELSE <<ls[1]>> \o NonBlank(Tail(ls))

AllParse(f) ==
    LET ls == Lines(f) IN \A i \in 1..Len(ls) : ls[i] = <<>> \/ Parses(ls[i])

\* The stored records, in file order (meaningful when AllParse holds).
Records(f) ==
    LET ls == NonBlank(Lines(f)) IN [i \in 1..Len(ls) |-> Parsed(ls[i])]

\* The literal genesis sentinel of the specification: 64 ASCII zeros.
SixtyFourZeros == Str("0000000000000000000000000000000000000000000000000000000000000000")

\* The chain conditions, stated record by record.
LinkedFromGenesis(rs) ==
    /\ rs # <<>> => rs[1].prev_hash = SixtyFourZeros
    /\ \A i \in 2..Len(rs) : rs[i].prev_hash = rs[i - 1].self_hash

SelfHashesHold(rs) ==
    \A i \in 1..Len(rs) : rs[i].self_hash = Sha256Hex(canonical_json(rs[i]))

(***************************************************************************)
(* C3: after any sequence of sequential append_deed_event calls on a store *)
(* that was empty or absent, the first committed record's prev_hash is the *)
(* 64-zero genesis sentinel, every later record's prev_hash is the         *)
(* self_hash of the record committed before it, the chain holds exactly    *)
(* the records of the successful appends, and validate_ledger returns      *)
(* true (checked on every existing store, and on the result of every       *)
(* validate_ledger call made between appends).                             *)
(***************************************************************************)
C3_SequentialChain ==
    pc[1] = "idle" =>
        /\ AllParse(file)
        /\ LET rs == Records(file) IN
              /\ LinkedFromGenesis(rs)
              /\ Len(rs) = Len(acked)
              /\ \A i \in 1..Len(acked) : rs[i].self_hash = acked[i]
        /\ exists => validate_ledger(exists, file) = "true"
        /\ (last = "validate" /\ exists) => vres = "true"

C3_Witness ==
    /\ pc[1] = "idle"
    /\ Len(acked) = 3
    /\ last = "validate"
    /\ vres = "true"

(***************************************************************************)
(* C4: no record with life_harm_flag = true or with non-empty ethics_flags *)
(* is ever committed to the ledger.                                        *)
(***************************************************************************)
C4_NoFlaggedRecordCommitted ==
    \A i \in 1..Len(file) :
        file[i].k = "json" =>
            /\ ~Stored(file[i]).life_harm_flag
            /\ Stored(file[i]).ethics_flags = <<>>

(***************************************************************************)
(* C7: every record created by DeedEvent::new carries the self_hash that   *)
(* compute_self_hash gives for it, and compute_self_hash does not depend   *)
(* on the self_hash field.                                                 *)
(***************************************************************************)
OtherSelfHashes == {Str(""), SixtyFourZeros, Str("deadbeef")}

CreatedByNew ==
    {ev[p][1] : p \in {q \in Callers : ev[q] # <<>>}}
        \cup {Stored(file[i]) : i \in {j \in 1..Len(file) : file[j].k = "json"}}

C7_SelfHashOfNew ==
    \A e \in CreatedByNew :
        /\ e.self_hash = compute_self_hash(e)
        /\ \A h \in OtherSelfHashes :
              compute_self_hash([e EXCEPT !.self_hash = h]) = compute_self_hash(e)

C7_Witness ==
    /\ ev[1] # <<>>
    /\ Len(Records(file)) >= 1
    /\ ev[1][1].prev_hash = Records(file)[Len(Records(file))].self_hash
    /\ ev[1][1].self_hash # Str("")

(***************************************************************************)
(* C1: for a stored sequence of records, validate_ledger returns true if   *)
(* and only if the first record's prev_hash is the genesis sentinel, every *)
(* later record's prev_hash equals its predecessor's self_hash and every   *)
(* record's self_hash is the hash of its canonical form; one broken link   *)
(* or altered hashed field anywhere makes it return false.                 *)
(***************************************************************************)
C1_ValidateIffChain ==
    (last = "validate" /\ exists /\ AllParse(file)) =>
        LET rs == Records(file) IN
        /\ vres \in {"true", "false"}
        /\ vres = "true" <=> (LinkedFromGenesis(rs) /\ SelfHashesHold(rs))

C1_Witness ==
    /\ last = "validate"
    /\ exists
    /\ AllParse(file)
    /\ Len(Records(file)) = 3
    /\ LinkedFromGenesis(SubSeq(Records(file), 1, 2))
    /\ SelfHashesHold(SubSeq(Records(file), 1, 2))
    /\ SelfHashesHold(Records(file))
    /\ Records(file)[3].prev_hash # Records(file)[2].self_hash
    /\ vres = "false"

(***************************************************************************)
(* C2: when append_deed_event calls on the same store run concurrently,    *)
(* the committed records still form one total order: no two committed      *)
(* records carry the same prev_hash, each record's prev_hash is the        *)
(* self_hash of the record committed immediately before it, and            *)
(* validate_ledger returns true afterwards.                                *)
(***************************************************************************)
C2_ConcurrentAppendsOneOrder ==
    (\A p \in Callers : pc[p] = "idle") =>
        /\ AllParse(file)
        /\ LET rs == Records(file) IN
              /\ \A i, j \in 1..Len(rs) : i # j => rs[i].prev_hash # rs[j].prev_hash
              /\ LinkedFromGenesis(rs)
        /\ exists => validate_ledger(exists, file) = "true"

(***************************************************************************)
(* C9: a reader that finds a trailing incomplete record at the end of      *)
(* storage treats it as not yet committed: validate_ledger and the tail    *)
(* read of append_deed_event answer what they answer for the file without  *)
(* that record.                                                            *)
(***************************************************************************)
TrailingIncomplete(f) == f # <<>> /\ f[Len(f)].k = "part"
WithoutTrailing(f) == SubSeq(f, 1, Len(f) - 1)

C9_TrailingIncompleteTolerated ==
    (pc[1] = "idle" /\ TrailingIncomplete(file)) =>
        /\ validate_ledger(exists, file) = validate_ledger(exists, WithoutTrailing(file))
        /\ TailRead(exists, file) = TailRead(exists, WithoutTrailing(file))
        /\ last = "validate" => vres = validate_ledger(exists, WithoutTrailing(file))

(***************************************************************************)
(* C10: if the durable write inside append fails, append returns an error, *)
(* the record is not committed, and the chain every later reader sees is   *)
(* exactly the chain that existed before the call.                         *)
(***************************************************************************)
C10_FailedWriteLeavesChain ==
    ret[1].st = "err_io" =>
        /\ Lines(file) = Lines(pre[1])
        /\ TailRead(TRUE, file) = TailRead(TRUE, pre[1])
        /\ validate_ledger(TRUE, file) = validate_ledger(TRUE, pre[1])

(***************************************************************************)
(* C5: content validation rejects every record with life_harm_flag = true  *)
(* (LifeHarm) and every record with non-empty ethics_flags                 *)
(* (EthicsViolation), whatever the expected previous hash is, and before   *)
(* the chain-integrity check: a flagged record that is also wrongly linked *)
(* yields the content error, never HashMismatch.                           *)
(***************************************************************************)
C5_ContentBeforeChain ==
    vResult # "none" =>
        /\ vEvent.life_harm_flag => vResult = "LifeHarm"
        /\ (~vEvent.life_harm_flag /\ vEvent.ethics_flags # <<>>) => vResult = "EthicsViolation"

C5_Witness ==
    /\ vEvent.ethics_flags # <<>>
    /\ ~vEvent.life_harm_flag
    /\ vExpected # Str("genesis")
    /\ vEvent.prev_hash # vExpected
    /\ vResult = "EthicsViolation"

(***************************************************************************)
(* C6: validate_new_event returns Ok for a content-clean record only if    *)
(* the record's prev_hash equals the expected previous hash and its        *)
(* self_hash equals the hash of its canonical form.                        *)
(***************************************************************************)
C6_OkOnlyIfLinkedAndHashed ==
    vResult = "Ok" =>
        /\ vEvent.prev_hash = vExpected
        /\ vEvent.self_hash = Sha256Hex(canonical_json(vEvent))

(***************************************************************************)
(* C8: for a record linked by finalize_hash_chain or link_to_prev, the     *)
(* hash recomputed from the finished record is the stored self_hash, and   *)
(* the stored self_hash is the one that linking the same field values to   *)
(* the same prev_hash gives, whatever self_hash held before and however    *)
(* often the record was linked.                                            *)
(***************************************************************************)
C8_LinkedHashReproducible ==
    /\ recLinks # <<>> =>
          /\ Ledger_compute_self_hash(rec) = rec.self_hash
          /\ \A h \in {Str(""), Str("deadbeef")} :
                Ledger_finalize_hash_chain([rec EXCEPT !.self_hash = h],
                                           recLinks[Len(recLinks)]).self_hash = rec.self_hash
    /\ mrecLinks # <<>> =>
          /\ Observer_compute_hash(mrec) = mrec.self_hash
          /\ \A h \in {Str(""), Str("deadbeef")} :
                Observer_link_to_prev([mrec EXCEPT !.self_hash = h],
                                      mrecLinks[Len(mrecLinks)]).self_hash = mrec.self_hash


(***************************************************************************)
(* C11: append_deed_event reports a record as appended (returns its        *)
(* self_hash) only when the record is complete on durable storage: at      *)
(* every moment, a crash included, every record reported as appended is    *)
(* present and complete in the durable content of the file.                *)
(***************************************************************************)
C11_ReportedOnlyWhenDurable ==
    \A i \in 1..Len(appended) :
        \E j \in 1..Len(DurableFile) :
            /\ DurableFile[j].k = "json"
            /\ DurableFile[j].e[1] = to_string(appended[i])

FlaggedRecord(e) == e.life_harm_flag \/ e.ethics_flags # <<>>

C13_ChurchRecommendation ==
    sChurch # <<>> =>
        /\ FlaggedRecord(sEvent) => sChurch[1] = 0
        /\ sChurch[1] \in {0, CHURCH_RECOMMEND_PER_GOOD_DEED}
        /\ sChurch[1] = CHURCH_RECOMMEND_PER_GOOD_DEED <=>
              /\ ~sEvent.life_harm_flag
              /\ sEvent.ethics_flags = <<>>
              /\ sEvent.deed_type \in
                    {"ecological_sustainability", "homelessness_relief", "math_science_education"}

C13_Witness ==
    /\ sChurch = <<0>>
    /\ ~sEvent.life_harm_flag
    /\ sEvent.ethics_flags = <<"RoH_CEILING_EXCEEDED">>
    /\ sEvent.deed_type = "homelessness_relief"

(***************************************************************************)
(* C14: for every record with life_harm_flag = true or with non-empty      *)
(* ethics_flags, moral_position_score is 0 and eco_grant_recommendation is *)
(* 0, whatever the record's deed_type and tags.                            *)
(***************************************************************************)
C14_FlaggedScoresZero ==
    FlaggedRecord(sEvent) =>
        /\ sMp # <<>> => sMp[1] = 0
        /\ sGrant # <<>> => sGrant[1] = 0


(***************************************************************************)
(* What the claims about check_route speak of.                             *)
(***************************************************************************)
ZeroEnvelope == Envelope(0, 0, 0, 0, 0)

\* A subject's usage; a subject without an entry has used nothing.
UsageOf(u) == IF CURRENT_USAGE[u] = <<>> THEN ZeroEnvelope ELSE CURRENT_USAGE[u][1]

\* The five dimensions of an envelope, in the order the struct declares them.
Dimensions ==
    <<"max_power_watts", "max_daily_kwh", "max_heat_output", "max_co2e_kg", "max_water_liters">>

\* The dimensions check_route compares with the ceiling.
CheckedDimensions == {"max_power_watts", "max_daily_kwh", "max_co2e_kg"}

\* The effective ceiling as the specification resolves it: the envelope
\* configured for the route id, else the global envelope.
ClaimedCeiling(spec, route) ==
    IF route \in DOMAIN spec.per_route_budgets
    THEN spec.per_route_budgets[route]
    ELSE spec.global_envelope

\* The route is in the governed (altar) set, whatever the case of its letters.
Governed(spec, route) ==
    \E i \in 1..Len(spec.altar_routes) :
        to_lowercase(spec.altar_routes[i]) = to_lowercase(route)

Returned(t) == kpc[t] = "idle" /\ kres[t].st # "none"

Smaller(a, b) == IF a < b THEN a ELSE b

(***************************************************************************)
(* C15: whenever no check_route call is in flight, every subject's usage   *)
(* equals, in every dimension, the sum of the demands of the calls for     *)
(* that subject that returned Ok, whether the calls ran one after the      *)
(* other or concurrently; a subject with no admitted demand has usage 0.   *)
(***************************************************************************)
C15_UsageIsSumOfAdmitted ==
    (\A t \in Threads : kpc[t] = "idle") =>
        \A u \in Subjects : UsageOf(u) = admitted[u]

(***************************************************************************)
(* C16: every demand for which check_route returned Ok is within the       *)
(* ceiling check_route resolved for its route in all five envelope         *)
(* dimensions (power, kWh, heat, CO2e, water).                             *)
(***************************************************************************)
C16_AdmittedWithinAllCeilings ==
    \A t \in Threads :
        (Returned(t) /\ kres[t].st = "Ok") =>
            \A i \in 1..Len(Dimensions) :
                kcall[t].demand[Dimensions[i]]
                    <= RouteEnvelope(ECO_SPEC, kcall[t].route)[Dimensions[i]]

(***************************************************************************)
(* C17: check_route reports the error of the first check that fails, in    *)
(* the order risk-indicator cap, per-dimension ceiling, governed route,    *)
(* minimum guarantee, viability predicate; among ceiling violations the    *)
(* first violating dimension, in the order of the envelope's dimensions,   *)
(* is the one reported; a call no check rejects returns Ok.                *)
(***************************************************************************)
C17_FirstFailingCheckReported ==
    Returned(1) =>
        LET c == kcall[1]
            r == kres[1]
            env == RouteEnvelope(ECO_SPEC, c.route)
            over == {i \in 1..Len(Dimensions) : c.demand[Dimensions[i]] > env[Dimensions[i]]}
            first == CHOOSE i \in over : \A j \in over : i <= j
            minimums == ECO_SPEC.per_subject_minimums
            floor == IF c.subject \in DOMAIN minimums THEN minimums[c.subject].max_daily_kwh ELSE 0
        IN  IF c.roh > ECO_SPEC.global_roh_ceiling THEN r.st = "RohCeilingBreach"
            ELSE IF over # {}
            THEN /\ r.st = "BudgetExceeded"
                 /\ r.demand = c.demand[Dimensions[first]]
                 /\ r.limit = env[Dimensions[first]]
            ELSE IF Governed(ECO_SPEC, c.route) THEN r.st = "AltarRequiresEvolve"
            ELSE \/ /\ r.st = "BelowMinimum"
                    /\ UsageOf(c.subject).max_daily_kwh + c.demand.max_daily_kwh < floor
                 \/ /\ r.st = "ViabilityFailure"
                    /\ UsageOf(c.subject).max_daily_kwh + c.demand.max_daily_kwh >= floor
                    /\ ~c.viable
                 \/ /\ r.st = "Ok"
                    /\ UsageOf(c.subject).max_daily_kwh >= floor
                    /\ c.viable

(***************************************************************************)
(* C18, as claimed: every check_route call on a governed (altar) route     *)
(* returns the governed-route-blocked error, for every subject, demand and *)
(* risk-indicator value.                                                   *)
(***************************************************************************)
C18_GovernedAlwaysBlocked ==
    \A t \in Threads :
        (Returned(t) /\ Governed(ECO_SPEC, kcall[t].route)) =>
            kres[t].st = "AltarRequiresEvolve"

(***************************************************************************)
(* C18, amended: a check_route call on a governed (altar) route never      *)
(* returns Ok and never changes the usage ledger; it returns the           *)
(* governed-route-blocked error unless the risk-indicator cap or a ceiling *)
(* check, which come first, rejects the call.                              *)
(***************************************************************************)
C18_GovernedNeverAdmitted ==
    [][(kcalls' # kcalls /\ Governed(ECO_SPEC, kcall'[1].route)) =>
          /\ kpc'[1] = "idle"
          /\ CURRENT_USAGE' = CURRENT_USAGE
          /\ kres'[1].st \in {"RohCeilingBreach", "BudgetExceeded", "AltarRequiresEvolve"}
          /\ kres'[1].st = "RohCeilingBreach" <=> kcall'[1].roh > ECO_SPEC.global_roh_ceiling
          /\ (kres'[1].st # "AltarRequiresEvolve" /\ kres'[1].st # "RohCeilingBreach") =>
                /\ kres'[1].st = "BudgetExceeded"
                /\ kres'[1].demand > kres'[1].limit]_vars

C18_Witness ==
    /\ Returned(1)
    /\ kcall[1].route = "Donation"
    /\ kres[1].st = "AltarRequiresEvolve"
    /\ CURRENT_USAGE[kcall[1].subject] # <<>>
    /\ UsageOf(kcall[1].subject) = AddEnvelope(EcoEnvelope_default, admitted[kcall[1].subject])
    /\ admitted[kcall[1].subject] # ZeroEnvelope

(***************************************************************************)
(* C19: the effective ceiling check_route uses is the envelope configured  *)
(* for the route id whenever there is one, and the global envelope         *)
(* otherwise, never a merge of the two: a call that passes the risk cap is *)
(* rejected with a ceiling error exactly when its demand exceeds that      *)
(* envelope, and the error carries that envelope's limit.                  *)
(***************************************************************************)
C19_EffectiveCeilingIsSubstitution ==
    \A t \in Threads :
        (Returned(t) /\ kcall[t].roh <= ECO_SPEC.global_roh_ceiling) =>
            LET expected == CeilingCheck(kcall[t].demand, ClaimedCeiling(ECO_SPEC, kcall[t].route))
            IN  IF expected # <<>> THEN kres[t] = expected[1]
                ELSE kres[t].st # "BudgetExceeded"

(***************************************************************************)
(* C20: per-route envelopes are enforced strictest-wins: no demand for     *)
(* which check_route returned Ok exceeds, in any checked dimension, the    *)
(* smaller of the route's ceiling and the global ceiling.                  *)
(***************************************************************************)
C20_StrictestWins ==
    \A t \in Threads :
        (Returned(t) /\ kres[t].st = "Ok") =>
            \A dim \in CheckedDimensions :
                kcall[t].demand[dim]
                    <= Smaller(RouteEnvelope(ECO_SPEC, kcall[t].route)[dim],
                               ECO_SPEC.global_envelope[dim])

(***************************************************************************)
(* C21: for a subject with a minimum guarantee of 5 kWh and no earlier     *)
(* admission, every check_route call of 2 kWh on a non-governed route,     *)
(* within the ceilings, under the risk cap and accepted by the viability   *)
(* predicate returns Ok, and after the third such admission the subject's  *)
(* kWh usage is 6.                                                         *)
(***************************************************************************)
C21_ThreeAdmissionsReachSix ==
    (/\ ECO_SPEC = GuaranteeSpec
     /\ Returned(1)
     /\ kcall[1].subject = "subject-a"
     /\ kcall[1].roh <= ECO_SPEC.global_roh_ceiling
     /\ kcall[1].viable) =>
        /\ kres[1].st = "Ok"
        /\ admitted["subject-a"].max_daily_kwh = 60 =>
              UsageOf("subject-a").max_daily_kwh = 60

(***************************************************************************)
(* C26: the RoH ceiling of 0.30 is respected under every loadable policy:  *)
(* a check_route call made while the live RoH value is above 0.30 never    *)
(* returns Ok, it returns the RoH-ceiling-breach error.                    *)
(***************************************************************************)
C26_RohCeilingRespected ==
    \A t \in Threads :
        (Returned(t) /\ kcall[t].roh > 30) => kres[t].st = "RohCeilingBreach"

(***************************************************************************)
(* C22: a check_route call that returns an error leaves the usage ledger   *)
(* as it was before the call.  The ledger starts empty and only admissions *)
(* may change it, so when a call has returned an error every subject that  *)
(* has a ledger entry has had a demand admitted.                           *)
(***************************************************************************)
C22_ErrorLeavesLedgerUnchanged ==
    (Returned(1) /\ kres[1].st # "Ok") =>
        \A u \in Subjects :
            CURRENT_USAGE[u] # <<>> => admitted[u] # ZeroEnvelope

(***************************************************************************)
(* C23: the kernel never decrements committed usage: with non-negative     *)
(* demands, no step of any check_route call leaves a dimension of any      *)
(* subject's usage lower than it was.                                      *)
(***************************************************************************)
C23_UsageNeverDecrements ==
    [][\A u \in Subjects : \A i \in DOMAIN Dimensions :
          UsageOf(u)'[Dimensions[i]] >= UsageOf(u)[Dimensions[i]]]_vars

C23_Witness ==
    \E u \in Subjects :
        /\ admitted[u].max_daily_kwh >= 40
        /\ UsageOf(u) = AddEnvelope(EcoEnvelope_default, admitted[u])
        /\ \A t \in Threads : kpc[t] = "idle"

(***************************************************************************)
(* C24: calls for different subjects proceed independently: while a call   *)
(* for one subject is stalled between its minimum-guarantee check and its  *)
(* commit, a call for a different subject that has reached the usage       *)
(* ledger can take its next step.                                          *)
(***************************************************************************)
C24_DifferentSubjectsIndependent ==
    \A t1, t2 \in Threads :
        (/\ t1 # t2
         /\ kpc[t1] = "viability"
         /\ kpc[t2] = "entry"
         /\ kcall[t1].subject # kcall[t2].subject) =>
            shardLock[shardOf[kcall[t2].subject]] = 0

(***************************************************************************)
(* C30: for one subject the minimum-guarantee check and the usage commit   *)
(* are one atomic step with respect to every other call: from the moment a *)
(* call has passed the floor check until it returns, the subject's usage   *)
(* is changed by no other call, and an admitted call raises the usage the  *)
(* floor check was decided on by exactly its own demand.                   *)
(***************************************************************************)
C30_FloorCheckAndCommitAtomic ==
    [][\A t \in Threads :
          kpc[t] = "viability" =>
              LET s == kcall[t].subject
              IN  IF kpc'[t] = "idle" /\ kres'[t].st = "Ok"
                  THEN CURRENT_USAGE'[s] =
                          <<AddEnvelope(CURRENT_USAGE[s][1], kcall[t].demand)>>
                  ELSE CURRENT_USAGE'[s] = CURRENT_USAGE[s]]_vars

\* One call for subject-b has passed the floor and is stalled before its
\* commit while the other thread's call for subject-b waits at the entry,
\* and a call for subject-b was turned away by the floor or admitted before.
C30_Witness ==
    /\ kpc[1] = "viability"
    /\ kpc[2] = "entry"
    /\ kcall[1].subject = "subject-b"
    /\ kcall[2].subject = "subject-b"
    /\ admitted["subject-b"] # ZeroEnvelope

(***************************************************************************)
(* C25: each check_route call evaluates all of its checks against one      *)
(* policy snapshot.  The policy does not change while a call is in flight, *)
(* the result a call returns is the verdict of the checks (risk cap,       *)
(* effective ceiling, governed-route set, minimum guarantee, viability)    *)
(* taken together under the one policy in force at that moment, and a      *)
(* thread that is idle can always start a call, whatever the other thread  *)
(* is doing.                                                               *)
(***************************************************************************)
Verdict(spec, call, usage) ==
    IF call.roh > spec.global_roh_ceiling THEN "RohCeilingBreach"
    ELSE IF CeilingCheck(call.demand, RouteEnvelope(spec, call.route)) # <<>>
    THEN "BudgetExceeded"
    ELSE IF IsAltarRoute(spec, call.route) THEN "AltarRequiresEvolve"
    ELSE IF IsBelowMinimum(spec, call.subject, usage, call.demand) THEN "BelowMinimum"
    ELSE IF ~call.viable THEN "ViabilityFailure"
    ELSE "Ok"

UsageFound(u) == IF CURRENT_USAGE[u] = <<>> THEN EcoEnvelope_default ELSE CURRENT_USAGE[u][1]

C25_OneSnapshotStep ==
    /\ (\E t \in Threads : kpc[t] # "idle") => ECO_SPEC' = ECO_SPEC
    /\ \A t \in Threads :
          (/\ kpc'[t] = "idle"
           /\ <<kpc[t], kcall[t], kres[t]>> # <<kpc'[t], kcall'[t], kres'[t]>>) =>
              kres'[t].st = Verdict(ECO_SPEC', kcall'[t], UsageFound(kcall'[t].subject))

C25_OnePolicySnapshot ==
    /\ [][C25_OneSnapshotStep]_vars
    /\ [](\A t \in Threads :
            (kpc[t] = "idle" /\ kcalls < MaxReloadChecks) => ENABLED ReloadBegin(t))

\* A call judged under the default policy has returned (its demand is over
\* the default ceiling), the policy has been replaced, and the same call made
\* again has passed the ceiling of the new policy and been turned away by the
\* new policy's minimum guarantee.
C25_Witness ==
    /\ ECO_SPEC = LoadedSpec
    /\ kres[2].st = "BudgetExceeded"
    /\ kcall[2].route = "sim"
    /\ kcall[2].demand.max_power_watts = 9000
    /\ kpc[2] = "idle"
    /\ kpc[1] = "idle"
    /\ kres[1].st = "BelowMinimum"
    /\ kcall[1] = kcall[2]

(***************************************************************************)
(* C27: for every deed log and every observer state, the four sub-scores   *)
(* and mp_score that compute returns lie in [0,1] (0..10000 in             *)
(* ten-thousandths), and mp_score is 0.25 privacy + 0.25 compliance +      *)
(* 0.25 eco_align + 0.20 clin_trust + 0.05 asset term, weights that sum to *)
(* 1, clamped to [0,1].                                                    *)
(***************************************************************************)
C27_ScoresInUnitInterval ==
    rfresh # <<>> =>
        LET v == rfresh[1].vector
        IN  /\ \A score \in {v.privacy, v.compliance, v.eco_align, v.clin_trust, v.mp_score} :
                  score \in 0..10000
            /\ 25 + 25 + 25 + 20 + 5 = 100
            /\ v.mp_score =
                  clamp((25 * v.privacy + 25 * v.compliance + 25 * v.eco_align
                           + 20 * v.clin_trust + 5 * avg_asset(observer)) \div 100, 0, 10000)

\* Five signed recovery trials: the clinical-trust sum is 1.05 before the clamp.
C27_Witness ==
    /\ rfresh # <<>>
    /\ Len(core_deed_log) >= 5
    /\ \A i \in DOMAIN core_deed_log : core_deed_log[i] = DeedKinds[6]
    /\ rfresh[1].vector.clin_trust = 10000
    /\ observer.lattice # <<>>

(***************************************************************************)
(* C28: for a deed log that holds only deeds without the life-harm flag,   *)
(* with at least one Target1 deed and at least one Target2 deed, and an    *)
(* observer stepped at low load at least 10 times, the reputation vector   *)
(* has mp_score > 0.90 and eco_align > 0.80 and the recommendation is the  *)
(* eco_grant label.                                                        *)
(***************************************************************************)
C28_HighTrustEarnsGrant ==
    (/\ rfresh # <<>>
     /\ \A i \in DOMAIN core_deed_log : ~core_deed_log[i].life_harm_flag
     /\ \E i \in DOMAIN core_deed_log : core_deed_log[i].node = "Target1"
     /\ \E i \in DOMAIN core_deed_log : core_deed_log[i].node = "Target2"
     /\ observer.deed_log >= 10) =>
        /\ rfresh[1].vector.mp_score > 9000
        /\ rfresh[1].vector.eco_align > 8000
        /\ rfresh[1].recommendation = "eco_grant"

(***************************************************************************)
(* C29: compute is stateless per call: whatever calls were made before on  *)
(* the same engine, the vector a compute call returns is the one a new     *)
(* engine returns for the same deed log and the same observer state.       *)
(***************************************************************************)
C29_ComputeIsStateless ==
    [][rcomputes' # rcomputes =>
          rvector'[1].vector = compute(ReputationEngine_new, core_deed_log, observer).vector]_vars

\* A second compute on an engine whose stored vector came from another deed
\* log and whose predicate_history is not empty.
C29_Witness ==
    /\ rcomputes = 2
    /\ Len(engine.predicate_history) = 2
    /\ Len(core_deed_log) >= 2
    /\ observer.deed_log >= 10

(***************************************************************************)
(* C31: the daily turn limit is never exceeded: whatever today values the  *)
(* calls are given, the number of try_evolve_neuromorph and consume_turn   *)
(* calls that succeed with one today value never exceeds max_daily_turns,  *)
(* and turns_used never exceeds max_daily_turns.                           *)
(***************************************************************************)
C31_DailyLimitNeverExceeded ==
    /\ \A d \in DOMAIN fsucc : fsucc[d] <= fcfg.max_daily_turns
    /\ daily_turns.turns_used <= fcfg.max_daily_turns

(***************************************************************************)
(* C32: whenever try_evolve_neuromorph returns an error, the BioTokenState *)
(* and the FearDailyTurnState passed in are exactly as before the call.    *)
(***************************************************************************)
C32_ErrorLeavesStatesUnchanged ==
    (fres.op = "try_evolve_neuromorph" /\ fres.st # "Ok") =>
        /\ bio_state = fpre[1].state
        /\ daily_turns = fpre[1].daily

\* What the last ensure_rights_held call was given and what it met.
EnsureCalled == rvreq.op = "ensure_rights_held"

TierChanged == sov.capability_tier # rvpre[1].sov.capability_tier

LoggedRecords == SelectSeq(audit, LAMBDA u : u.k = "json")

\* C33: ensure_rights_held changes capability_tier only when the quorum check
\* passed, the envelope's current value is outside its warn bounds and the
\* request is an emergency; while no_rollback is true a request that is not
\* an emergency never changes capability_tier.
C33_DowngradeOnlyOnEmergency ==
    EnsureCalled =>
        /\ TierChanged =>
              /\ verify_quorum_sig(rk, <<"json", rvreq.request>>, rvreq.signatures)
              /\ compute_nosaferalternative(rvreq.envelope)
              /\ rvreq.request.emergency
        /\ (rvpre[1].sov.no_rollback /\ ~rvreq.request.emergency) => ~TierChanged

\* C34: ensure_rights_held returns Ok only if at least quorum_threshold
\* distinct keys of the kernel's public_keys made a valid signature over the
\* request; outside keys and repeated keys do not count.
C34_QuorumOfAuthorizedKeys ==
    (EnsureCalled /\ rvres = "Ok") =>
        verify_quorum_sig_authorized(rk, <<"json", rvreq.request>>, rvreq.signatures)

\* C35: no resimulate_safe or ensure_rights_held call makes evolution_index,
\* power, tech or nano of the state, or church_token_balance of the kernel,
\* smaller than it was.
C35_CountersNeverDecrease ==
    [][ /\ \A f \in {"evolution_index", "power", "tech", "nano"} : ~u64_lt(sov'[f], sov[f])
        /\ ~u64_lt(rk'.church_token_balance, rk.church_token_balance) ]_vars

\* C36: when ensure_rights_held returns Unauthorized, SaferAlternativeExists,
\* RollbackForbidden or Io, the state, the token balance and the audit log are
\* as they were before the call.
C36_ErrorLeavesEverythingUnchanged ==
    (EnsureCalled /\ rvres \in {"Unauthorized", "SaferAlternativeExists", "RollbackForbidden", "Io"}) =>
        /\ sov = rvpre[1].sov
        /\ rk.church_token_balance = rvpre[1].balance
        /\ audit = rvpre[1].audit

\* C37: every record of the audit log has the self_hash of the record logged
\* before it as its prev_hash (the first one has the empty hash), its own
\* self_hash is the hash of the record serialised with an empty self_hash,
\* and no call rewrites what the log already holds.
C37_AuditLogHashLinked ==
    /\ [](\A i \in DOMAIN LoggedRecords :
            LET r == LoggedRecords[i].r
            IN  /\ r.prev_hash = IF i = 1 THEN Str("") ELSE LoggedRecords[i - 1].r.self_hash
                /\ r.self_hash = Sha256Hex(AuditJson([r EXCEPT !.self_hash = Str("")])))
    /\ [][Len(audit') >= Len(audit) /\ SubSeq(audit', 1, Len(audit)) = audit]_vars

\* C38: after any number of step calls deed_log holds one record per step,
\* with the records it held before unchanged; the first record's prev_hash is
\* 64 zeros, every later record's prev_hash is its predecessor's self_hash,
\* and current_hash is the last record's self_hash (64 zeros while the log is
\* empty).
C38_ObserverLogChained ==
    /\ [](/\ Len(obs_deed_log) = osteps
          /\ obs_deed_log # <<>> => obs_deed_log[1].prev_hash = SixtyFourZeros
          /\ \A i \in 2..Len(obs_deed_log) :
                obs_deed_log[i].prev_hash = obs_deed_log[i - 1].self_hash
          /\ current_hash = IF obs_deed_log = <<>> THEN SixtyFourZeros
                            ELSE obs_deed_log[Len(obs_deed_log)].self_hash)
    /\ [][SubSeq(obs_deed_log', 1, Len(obs_deed_log)) = obs_deed_log]_vars

C38_Witness ==
    /\ osteps = 3
    /\ Len(obs_deed_log) = 3
    /\ obs_deed_log[1].prev_hash = SixtyFourZeros
    /\ obs_deed_log[3].prev_hash = obs_deed_log[2].self_hash
    /\ obs_deed_log[2].self_hash # obs_deed_log[1].self_hash
    /\ current_hash = obs_deed_log[3].self_hash

MintRequested == rpc_req.method = "auto_church.mint_deed" /\ rpc_req.params # Malformed

Rejected1001 ==
    /\ rpc_resp.result = <<>>
    /\ rpc_resp.error # <<>>
    /\ rpc_resp.error[1].code = 1001

\* C39: a mint_deed request whose deed has life_harm_flag set or ethics flags
\* present, or whose roh and decay fail the biophysical or the eco-envelope
\* check, is answered with error 1001 and no result; and every deed handed to
\* mint_church passes validate_deed.
C39_NoMintWithoutValidation ==
    /\ MintRequested =>
          LET p == rpc_req.params
          IN  (\/ p.life_harm_flag
               \/ p.ethics_flags # <<>>
               \/ ~bio_check[<<p.roh, p.decay>>]
               \/ ~eco_check[<<p.roh, p.decay>>]) => Rejected1001
    /\ \A i \in DOMAIN mint_calls :
          validate_deed(mint_calls[i].deed, mint_calls[i].metrics.roh,
                        mint_calls[i].metrics.decay) = "Ok"

C39_Witness ==
    /\ MintRequested
    /\ rpc_req.params.ethics_flags # <<>>
    /\ ~rpc_req.params.life_harm_flag
    /\ bio_check[<<rpc_req.params.roh, rpc_req.params.decay>>]
    /\ eco_check[<<rpc_req.params.roh, rpc_req.params.decay>>]
    /\ Rejected1001
    /\ Len(mint_calls) = 1

=============================================================================
